---- MODULE Spec2Model ----
(***************************************************************************)
(* Model of the memory introspection core of streamwidget                  *)
(* (src/hcreative_streamwidget/memhook.py): the typed value codec, the     *)
(* address resolver, the memory scanner, the monitor loop and the hook     *)
(* registry.                                                               *)
(*                                                                         *)
(* Python values are encoded as follows.                                   *)
(*   - an optional value (None or x) is the sequence << >> or << x >>;     *)
(*   - a value read from or searched in memory is a record                 *)
(*     [kind, v, b]: kind "int" with the integer v, or kind "bytes" /      *)
(*     "float" with the byte sequence b;                                   *)
(*   - a byte string is a sequence of numbers in 0..255;                   *)
(*   - a call that raises yields a record with ok = FALSE.                 *)
(***************************************************************************)
EXTENDS Integers, Sequences, FiniteSets, TLC

VARIABLES
    codecIn,      \* codec run: [hookType, data_type, value] under test
    codecStage,   \* codec run: "start", "encoded", "decoded"
    codecBytes,   \* codec run: result of the scanner's encoder
    codecOut      \* codec run: result of read_value's decoder

VARIABLES
    hooks,        \* MemoryHookBuiltin.hooks: hook_id -> optional hook object
    objects,      \* the MemoryHook objects, by object number
    thread,       \* the monitor threads, by thread number
    system,       \* the target process: open handles and mapped bytes
    cmd,          \* the command path: idle, or blocked in a join
    reply,        \* the reply of the last command
    notifications,\* the memory_value_changed events, in emission order
    writes,       \* number of writes the target has made to its memory
    hookPolled,   \* per hook object, the value of its last successful poll
    detached,     \* the hook objects whose detach_memory_hook has returned
    pending,      \* the threads whose poll announced an event that is not
                  \* sent yet, in the order of their polls
    host,         \* the hosting process: "running" or "exited"
    invoked       \* the calls that the loops made of the subscribers of
                  \* their hooks, in call order

VARIABLES
    scanIn,       \* scan run: [layout, hook, value, data_type, max_results]
    scanPc,       \* scan run: "start", "walk", "done"
    current_addr, \* scan run: start of the next region to query
    addresses,    \* scan run: the matches collected so far
    scanReads,    \* scan run: start addresses of the chunk reads issued
    scanReply     \* scan run: result of the scan_memory handler

VARIABLES
    resIn,        \* resolver run: [hook, os] under test
    resStage,     \* resolver run: "start", "resolved", "replied"
    resAddr,      \* resolver run: result of _calculate_address
    resReply      \* resolver run: result of the read_memory_value handler

VARIABLES
    attrs,        \* attribute run: the Attributes dict under test
    styleCalls,   \* attribute run: the style calls made, in call order
    renderIn,     \* render run: the arguments of Element(...)
    elem,         \* render run: the element constructed
    html,         \* render run: result of Element.render
    renderStage   \* render run: "start", "built", "rendered"

VARIABLES
    recent_events, \* Server.recent_events: the events kept for replay
    emitted,       \* the number of to_client calls made
    history        \* the events of the calls with recent=True, in call order

codecVars == <<codecIn, codecStage, codecBytes, codecOut>>

serverVars == <<recent_events, emitted, history>>

widgetVars == <<attrs, styleCalls, renderIn, elem, html, renderStage,
                recent_events, emitted, history>>

resVars == <<resIn, resStage, resAddr, resReply>>

scanVars == <<scanIn, scanPc, current_addr, addresses, scanReads, scanReply>>

mainVars == <<hooks, objects, thread, system, cmd, reply, notifications, writes,
              hookPolled, detached, pending, host, invoked>>

vars == <<codecIn, codecStage, codecBytes, codecOut,
          resIn, resStage, resAddr, resReply,
          scanIn, scanPc, current_addr, addresses, scanReads, scanReply,
          hooks, objects, thread, system, cmd, reply, notifications, writes,
          hookPolled, detached, pending, host, invoked,
          attrs, styleCalls, renderIn, elem, html, renderStage,
          recent_events, emitted, history>>

\* The sequences over S of length at most n.
RECURSIVE SeqsUpTo(_, _)
SeqsUpTo(S, n) ==
    IF n = 0 THEN {<< >>}
    ELSE LET shorter == SeqsUpTo(S, n - 1)
         IN  shorter \cup {Append(q, x) : q \in shorter, x \in S}

\* ------------------------------------------------------------------------
\* Typed value codec
\* ------------------------------------------------------------------------

IntTags == {"int8", "int16", "int32", "int64"}

UIntTags == {"uint8", "uint16", "uint32", "uint64"}

FloatTags == {"float32", "float64"}

\* "bytes" stands for every tag the size table does not know.
DataTypes == IntTags \cup UIntTags \cup FloatTags \cup {"bytes"}

\* data_type.startswith('int'): of the tags above only int8..int64 begin
\* with the letters "int"; "uint8" begins with "u".
StartsWithInt(t) == t \in IntTags

\* data_type.startswith('u')
StartsWithU(t) == t \in UIntTags

\* data_type.startswith('float')
StartsWithFloat(t) == t \in FloatTags

\* sizes.get(self._data_type, 4)
_get_data_size(t) ==
    CASE t \in {"int8", "uint8"} -> 1
      [] t \in {"int16", "uint16"} -> 2
      [] t \in {"int32", "uint32", "float32"} -> 4
      [] t \in {"int64", "uint64", "float64"} -> 8
      [] OTHER -> 4

IntVal(n) == [kind |-> "int", v |-> n, b |-> << >>]

BytesVal(bs) == [kind |-> "bytes", v |-> 0, b |-> bs]

FloatVal(bs) == [kind |-> "float", v |-> 0, b |-> bs]

\* bytes(size): size zero bytes
ZeroBytes(n) == [i \in 1..n |-> 0]

\* Little-endian two's-complement bytes of n in width w (struct.pack of an
\* integer format).  \div rounds down and % is non-negative, so a
\* negative n yields its two's complement.
RECURSIVE ToBytes(_, _)
ToBytes(n, w) ==
    IF w = 0 THEN << >> ELSE <<n % 256>> \o ToBytes(n \div 256, w - 1)

\* The unsigned little-endian value of the bytes of bs from index i on.
RECURSIVE UnsignedFrom(_, _)
UnsignedFrom(bs, i) ==
    IF i > Len(bs) THEN 0 ELSE bs[i] + 256 * UnsignedFrom(bs, i + 1)

\* struct.unpack of an unsigned little-endian integer format
FromBytesUnsigned(bs) == UnsignedFrom(bs, 1)

\* The two's-complement little-endian value of the bytes of bs from
\* index i on; the last byte carries the sign.
RECURSIVE SignedFrom(_, _)
SignedFrom(bs, i) ==
    IF i = Len(bs)
    THEN (IF bs[i] >= 128 THEN bs[i] - 256 ELSE bs[i])
    ELSE bs[i] + 256 * SignedFrom(bs, i + 1)

\* struct.unpack of a signed little-endian integer format
FromBytesSigned(bs) == SignedFrom(bs, 1)

\* The least and the greatest integer of the model.
MinInt32 == -2147483647 - 1

MaxInt32 == -(MinInt32 + 1)

\* Range check of struct.pack (struct.error outside it).  The model's
\* integers stop at MaxInt32, so the upper limits of the 32-bit unsigned
\* and the 64-bit formats lie beyond every value of the model.
PackInRange(n, w, signed) ==
    CASE w = 1 -> IF signed THEN n \in -128..127 ELSE n \in 0..255
      [] w = 2 -> IF signed THEN n \in -32768..32767 ELSE n \in 0..65535
      [] OTHER -> IF signed THEN TRUE ELSE n >= 0

\* struct.pack('<b' ... '<Q', value)
Pack(value, w, signed) ==
    IF value.kind = "int" /\ PackInRange(value.v, w, signed)
    THEN [ok |-> TRUE, bytes |-> ToBytes(value.v, w)]
    ELSE [ok |-> FALSE, bytes |-> << >>]

\* scan_memory, "Pack the search value": hookType is the hook's own
\* _data_type (it alone decides size), data_type the scan request's.
PackSearchValue(hookType, data_type, value) ==
    LET size == _get_data_size(hookType)
        signed == ~StartsWithU(data_type)
    IN  IF StartsWithInt(data_type)
        THEN CASE data_type \in {"int8", "uint8"} -> Pack(value, 1, signed)
               [] data_type \in {"int16", "uint16"} -> Pack(value, 2, signed)
               [] data_type \in {"int32", "uint32"} -> Pack(value, 4, signed)
               [] data_type \in {"int64", "uint64"} -> Pack(value, 8, signed)
               [] OTHER -> [ok |-> TRUE, bytes |-> ZeroBytes(size)]
        ELSE IF StartsWithFloat(data_type)
        THEN (IF value.kind = "float" /\ Len(value.b) = _get_data_size(data_type)
              THEN [ok |-> TRUE, bytes |-> value.b]
              ELSE [ok |-> FALSE, bytes |-> << >>])
        ELSE [ok |-> TRUE,
              bytes |-> IF value.kind = "bytes" THEN value.b ELSE ZeroBytes(size)]

\* read_value, "Unpack based on data type": data holds
\* _get_data_size(t) bytes.
Unpack(t, data) ==
    LET signed == ~StartsWithU(t)
    IN  IF StartsWithInt(t)
        THEN CASE t \in {"int8", "uint8"} \/ t \in {"int16", "uint16"}
                  \/ t \in {"int32", "uint32"} \/ t \in {"int64", "uint64"} ->
                    IntVal(IF signed THEN FromBytesSigned(data)
                                     ELSE FromBytesUnsigned(data))
               [] OTHER -> BytesVal(data)
        ELSE IF StartsWithFloat(t)
        THEN FloatVal(data)
        ELSE BytesVal(data)

\* ------------------------------------------------------------------------
\* Target process memory and the address resolver
\* ------------------------------------------------------------------------

\* The operating system as the hook sees it:
\*   open     the process handles that are open,
\*   cells    the mapped bytes of the target, a function from the mapped
\*            addresses to bytes (an address outside its domain, such as
\*            the wrapped image of a negative address, is unmapped),
\*   partial  whether ReadProcessMemory reports success for a read that
\*            copied only the mapped head of the range.

\* Truth value of an optional number: None and 0 are false.
Truthy(opt) == opt /= << >> /\ opt[1] /= 0

\* Number of bytes of address .. address+size-1 that can be copied: the
\* length of the mapped head of the range.
Readable(cells, address, size) ==
    LET holes == {i \in 0..(size - 1) : address + i \notin DOMAIN cells}
    IN  IF holes = {} THEN size
        ELSE CHOOSE i \in holes : \A j \in holes : i <= j

\* kernel32.ReadProcessMemory(handle, address, buffer, size, &bytes_read);
\* the buffer is created zero-filled.
ReadProcessMemory(os, handle, address, size) ==
    LET n == IF handle \in os.open THEN Readable(os.cells, address, size) ELSE 0
    IN  [success |-> (n = size) \/ (os.partial /\ n > 0),
         bytes_read |-> n,
         raw |-> SubSeq([i \in 1..size |->
                           IF i <= n THEN os.cells[address + i - 1] ELSE 0],
                        1, size)]

ReadFailed == [ok |-> FALSE, data |-> << >>]

\* _read_memory without the comparison of bytes_read with size.
_read_memory_any_length(os, hook, address, size) ==
    IF ~Truthy(hook.process_handle)
    THEN ReadFailed
    ELSE LET r == ReadProcessMemory(os, hook.process_handle[1], address, size)
         IN  IF ~r.success
             THEN ReadFailed
             ELSE [ok |-> TRUE, data |-> r.raw]

\* MemoryHook._read_memory
_read_memory(os, hook, address, size) ==
    IF ~Truthy(hook.process_handle)
    THEN ReadFailed
    ELSE LET r == ReadProcessMemory(os, hook.process_handle[1], address, size)
         IN  IF ~r.success \/ r.bytes_read /= size
             THEN ReadFailed
             ELSE [ok |-> TRUE, data |-> r.raw]

\* The loop of _calculate_address over the offsets still to apply; reads
\* lists the addresses of the pointer reads made so far.
RECURSIVE FollowOffsets(_, _, _, _, _)
FollowOffsets(os, hook, address, offsets, reads) ==
    IF offsets = << >>
    THEN [ok |-> TRUE, address |-> address, reads |-> reads]
    ELSE LET ptr_bytes == _read_memory(os, hook, address, 8)
         IN  IF ~ptr_bytes.ok
             THEN [ok |-> FALSE, address |-> 0,
                   reads |-> Append(reads, address)]
             ELSE FollowOffsets(os, hook,
                                FromBytesUnsigned(ptr_bytes.data) + Head(offsets),
                                Tail(offsets), Append(reads, address))

\* if not self.base_address: raise RuntimeError("Base address not set")
BaseAddressSet(base_address) == Truthy(base_address)

\* MemoryHook._calculate_address
_calculate_address(os, hook) ==
    IF ~BaseAddressSet(hook.base_address)
    THEN [ok |-> FALSE, address |-> 0, reads |-> << >>]
    ELSE FollowOffsets(os, hook, hook.base_address[1], hook._offsets, << >>)

NoValue == [ok |-> FALSE, value |-> BytesVal(<< >>)]

\* read_value after address = self._calculate_address(): the read at the
\* address and the decoding.
read_value_at(os, hook, address) ==
    LET size == _get_data_size(hook._data_type)
    IN  IF ~address.ok
        THEN NoValue
        ELSE LET data == _read_memory(os, hook, address.address, size)
             IN  IF ~data.ok
                 THEN NoValue
                 ELSE [ok |-> TRUE, value |-> Unpack(hook._data_type, data.data)]

\* An address that is resolved once and used again by the reads after it;
\* last is the address of the read before, if there was one.
AddressKept(os, hook, last) ==
    IF last.ok THEN last ELSE _calculate_address(os, hook)

\* address = self._calculate_address(), the first statement of every
\* read_value: nothing of the read before is used.
AddressOfRead(os, hook, last) == _calculate_address(os, hook)

\* MemoryHook.read_value
read_value(os, hook) ==
    read_value_at(os, hook, _calculate_address(os, hook))

\* A handler's reply: raised tells that an exception left the handler,
\* otherwise success is the reply's flag and value its payload (an
\* optional value).
Reply(success, value) == [raised |-> FALSE, success |-> success, value |-> value]

Raised == [raised |-> TRUE, success |-> FALSE, value |-> << >>]

\* try: value = hook.read_value(); return {'success': True, 'value': value}
\* except Exception as e: return {'success': False, 'error': str(e)}
ReadValueReply(r) ==
    IF r.ok THEN Reply(TRUE, <<r.value>>) ELSE Reply(FALSE, << >>)

\* MemoryHookBuiltin.read_memory_value for a registry lookup that gave
\* hookOpt (None or the hook).
read_memory_value(os, hookOpt) ==
    IF hookOpt = << >>
    THEN Reply(FALSE, << >>)
    ELSE ReadValueReply(read_value(os, hookOpt[1]))

\* ------------------------------------------------------------------------
\* Memory scanner
\* ------------------------------------------------------------------------

\* For a scan the operating system also answers region queries:
\*   regions   the regions of the target's address space in address
\*             order, each [base, size, state, protect],
\*   min_addr, max_addr   the application address range of GetSystemInfo.

\* self.MEM_COMMIT = 0x1000
MEM_COMMIT == 4096

\* self.PAGE_READWRITE = 0x04
PAGE_READWRITE == 4

\* The other region states and protection flags of the Windows API.
Win == [MEM_RESERVE |-> 8192,
        PAGE_NOACCESS |-> 1, PAGE_READONLY |-> 2, PAGE_EXECUTE |-> 16,
        PAGE_EXECUTE_READ |-> 32, PAGE_GUARD |-> 256]

chunk_size == 4096

\* kernel32.VirtualQueryEx(handle, addr, &mem_info, sizeof(mem_info)):
\* result 0 when the query fails, otherwise the region from addr to the
\* end of the region that holds addr.
VirtualQueryEx(os, handle, addr) ==
    LET hit == {i \in 1..Len(os.regions) :
                    /\ os.regions[i].base <= addr
                    /\ addr < os.regions[i].base + os.regions[i].size}
    IN  IF handle \notin os.open \/ hit = {}
        THEN [result |-> 0, BaseAddress |-> 0, RegionSize |-> 0,
              State |-> 0, Protect |-> 0]
        ELSE LET r == os.regions[CHOOSE i \in hit : TRUE]
             IN  [result |-> 1, BaseAddress |-> addr,
                  RegionSize |-> r.base + r.size - addr,
                  State |-> r.state, Protect |-> r.protect]

\* mem_info.State == self.MEM_COMMIT and
\* (mem_info.Protect & 0xFF) not in [0x01, 0x04, 0x10]
RegionIsScanned(mem_info) ==
    /\ mem_info.State = MEM_COMMIT
    /\ (mem_info.Protect % 256) \notin {1, 4, 16}

Min(S) == CHOOSE x \in S : \A y \in S : x <= y

\* The n least elements of S in ascending order.
RECURSIVE Ascending(_, _)
Ascending(S, n) ==
    IF n = 0 \/ S = {} THEN << >>
    ELSE <<Min(S)>> \o Ascending(S \ {Min(S)}, n - 1)

\* SearchChunk without the break at max_results.
SearchChunkUncapped(data, search_bytes, addr, found, max_results) ==
    LET hits == {pos \in 0..(Len(data) - Len(search_bytes)) :
                    \A k \in 1..Len(search_bytes) :
                        data[pos + k] = search_bytes[k]}
        kept == Ascending(hits, Cardinality(hits))
    IN  found \o [i \in 1..Len(kept) |-> addr + kept[i]]

\* The search of one chunk: pos runs upwards over
\* 0 .. len(data)-len(search_bytes), every match appends addr + pos, and
\* the search ends when max_results addresses are collected.
SearchChunk(data, search_bytes, addr, found, max_results) ==
    LET hits == {pos \in 0..(Len(data) - Len(search_bytes)) :
                    \A k \in 1..Len(search_bytes) :
                        data[pos + k] = search_bytes[k]}
        kept == Ascending(hits, max_results - Len(found))
    IN  found \o [i \in 1..Len(kept) |-> addr + kept[i]]

\* A read size that runs from the chunk's start to the end of the region.
ReadSizeToRegionEnd(region_size, offset) == region_size - offset

\* read_size = min(chunk_size, region_size - offset)
ReadSize(region_size, offset) ==
    IF chunk_size < region_size - offset
    THEN chunk_size ELSE region_size - offset

\* An end of the chunk loop that a failed read brings about as well.
ChunkEndsLoopOnFailure(data, found, max_results) ==
    ~data.ok \/ Len(found) >= max_results

\* if len(addresses) >= max_results: break, the last statement of the try
\* block; except Exception: pass goes on with the next chunk.
ChunkEndsLoop(data, found, max_results) ==
    data.ok /\ Len(found) >= max_results

\* for offset in range(0, region_size, chunk_size): the chunks from
\* offset on; acc is [addresses, reads].  A chunk whose read raises is
\* skipped; reaching max_results leaves the loop.
RECURSIVE ScanChunks(_, _, _, _, _, _, _, _)
ScanChunks(os, hook, search_bytes, region_start, region_size, offset, acc, max_results) ==
    IF offset >= region_size
    THEN acc
    ELSE LET addr == region_start + offset
             read_size == ReadSize(region_size, offset)
             data == _read_memory(os, hook, addr, read_size)
             found == IF data.ok
                      THEN SearchChunk(data.data, search_bytes, addr,
                                       acc.addresses, max_results)
                      ELSE acc.addresses
             next == [addresses |-> found, reads |-> Append(acc.reads, addr)]
         IN  IF ChunkEndsLoop(data, found, max_results)
             THEN next
             ELSE ScanChunks(os, hook, search_bytes, region_start, region_size,
                             offset + chunk_size, next, max_results)

\* One iteration of the region walk of scan_memory from address cur with
\* the matches found so far, for the answer mem_info of the region query:
\* the chunks of a region that passes the check, and the step to the next
\* region.  stop tells that the query failed and the walk ends.
WalkAnswer(os, hook, search_bytes, cur, found, max_results, mem_info) ==
    LET none == [addresses |-> found, reads |-> << >>]
    IN  IF mem_info.result = 0
        THEN [stop |-> TRUE, current_addr |-> cur,
              addresses |-> found, reads |-> << >>]
        ELSE LET acc == IF RegionIsScanned(mem_info)
                        THEN ScanChunks(os, hook, search_bytes,
                                        mem_info.BaseAddress,
                                        mem_info.RegionSize, 0, none,
                                        max_results)
                        ELSE none
             IN  [stop |-> FALSE,
                  current_addr |-> cur + mem_info.RegionSize,
                  addresses |-> acc.addresses, reads |-> acc.reads]

\* One iteration of the region walk with the region query made at cur.
WalkRegion(os, hook, search_bytes, cur, found, max_results) ==
    WalkAnswer(os, hook, search_bytes, cur, found, max_results,
               VirtualQueryEx(os, hook.process_handle[1], cur))

\* while current_addr < max_addr and len(addresses) < max_results
WalkContinues(os, cur, found, max_results) ==
    cur < os.max_addr /\ Len(found) < max_results

\* try: addresses = hook.scan_memory(...);
\*      return {'success': True, 'addresses': addresses}
\* except Exception as e: return {'success': False, 'error': str(e)}
ScanReply(ok, found) ==
    IF ok THEN Reply(TRUE, <<found>>) ELSE Reply(FALSE, << >>)

\* The region walk of scan_memory from address cur to its end: the
\* addresses collected.
RECURSIVE WalkFrom(_, _, _, _, _, _)
WalkFrom(os, hook, search_bytes, cur, found, max_results) ==
    IF ~WalkContinues(os, cur, found, max_results)
    THEN found
    ELSE LET w == WalkRegion(os, hook, search_bytes, cur, found, max_results)
         IN  IF w.stop
             THEN w.addresses
             ELSE WalkFrom(os, hook, search_bytes, w.current_addr,
                           w.addresses, max_results)

\* MemoryHook.scan_memory as one call: ok is FALSE when it raises.
scan_memory(os, hook, value, data_type, max_results) ==
    LET search == PackSearchValue(hook._data_type, data_type, value)
    IN  IF ~Truthy(hook.process_handle) \/ ~search.ok
        THEN [ok |-> FALSE, addresses |-> << >>]
        ELSE [ok |-> TRUE,
              addresses |-> WalkFrom(os, hook, search.bytes, os.min_addr,
                                     << >>, max_results)]

\* MemoryHookBuiltin.scan_memory_handler for a registry lookup that gave
\* hookOpt (None or the hook).
scan_memory_handler(os, hookOpt, value, data_type, max_results) ==
    IF hookOpt = << >>
    THEN Reply(FALSE, << >>)
    ELSE LET r == scan_memory(os, hookOpt[1], value, data_type, max_results)
         IN  ScanReply(r.ok, r.addresses)

\* ------------------------------------------------------------------------
\* Scan runs: a scan_memory command over a layout of regions
\* ------------------------------------------------------------------------

MaxRegions == 2

MaxResults == 2

\* The regions a layout is built from.  plants are the offsets in the
\* region that hold the byte 42 (every other byte is 0), holes the chunks
\* of the region that ReadProcessMemory cannot copy, and short the chunks
\* of which it can copy the first half only; partial tells whether it
\* reports success for such a copy.
RegionKinds ==
    {[size |-> 4096, state |-> MEM_COMMIT, protect |-> Win.PAGE_READONLY,
      plants |-> {100}, holes |-> {}, short |-> {}, partial |-> FALSE],
     [size |-> 4096, state |-> MEM_COMMIT, protect |-> PAGE_READWRITE,
      plants |-> {100}, holes |-> {}, short |-> {}, partial |-> FALSE],
     [size |-> 4096, state |-> MEM_COMMIT,
      protect |-> Win.PAGE_READONLY + Win.PAGE_GUARD,
      plants |-> {100}, holes |-> {0}, short |-> {}, partial |-> FALSE],
     [size |-> 4096, state |-> MEM_COMMIT, protect |-> Win.PAGE_NOACCESS,
      plants |-> {}, holes |-> {0}, short |-> {}, partial |-> FALSE],
     [size |-> 4096, state |-> Win.MEM_RESERVE, protect |-> 0,
      plants |-> {}, holes |-> {0}, short |-> {}, partial |-> FALSE],
     [size |-> 8192, state |-> MEM_COMMIT, protect |-> Win.PAGE_EXECUTE_READ,
      plants |-> {10, 4094, 5000}, holes |-> {}, short |-> {},
      partial |-> FALSE],
     [size |-> 8192, state |-> MEM_COMMIT, protect |-> Win.PAGE_READONLY,
      plants |-> {10, 5000}, holes |-> {0}, short |-> {}, partial |-> FALSE],
     [size |-> 8192, state |-> MEM_COMMIT, protect |-> Win.PAGE_READONLY,
      plants |-> {10, 5000}, holes |-> {1}, short |-> {}, partial |-> FALSE],
     [size |-> 8192, state |-> MEM_COMMIT, protect |-> Win.PAGE_READONLY,
      plants |-> {10, 5000}, holes |-> {}, short |-> {0}, partial |-> TRUE]}

Layouts == SeqsUpTo(RegionKinds, MaxRegions) \ {<< >>}

RECURSIVE LayoutSize(_)
LayoutSize(layout) ==
    IF layout = << >> THEN 0 ELSE Head(layout).size + LayoutSize(Tail(layout))

RegionBase(layout, i) == LayoutSize(SubSeq(layout, 1, i - 1))

\* The bytes of region i of the layout that can be copied: its chunks
\* other than the holes, of a short chunk the first half.
RegionMapped(layout, i) ==
    UNION {(RegionBase(layout, i) + c * chunk_size)
               ..(RegionBase(layout, i)
                     + (IF c \in layout[i].short
                        THEN c * chunk_size + chunk_size \div 2
                        ELSE (c + 1) * chunk_size) - 1) :
           c \in (0..(layout[i].size \div chunk_size - 1)) \ layout[i].holes}

\* The operating system of a scan run over the layout: the address space
\* begins at 0 and ends with the last region; handle 7 is open.
ScanOs(layout) ==
    LET planted == UNION {{RegionBase(layout, i) + q : q \in layout[i].plants} :
                             i \in 1..Len(layout)}
    IN  [open |-> {7},
         cells |-> [a \in UNION {RegionMapped(layout, i) : i \in 1..Len(layout)}
                      |-> IF a \in planted THEN 42 ELSE 0],
         partial |-> \E i \in 1..Len(layout) : layout[i].partial,
         regions |-> [i \in 1..Len(layout) |->
                        [base |-> RegionBase(layout, i), size |-> layout[i].size,
                         state |-> layout[i].state,
                         protect |-> layout[i].protect]],
         min_addr |-> 0,
         max_addr |-> LayoutSize(layout) - 1]

ScanInputs ==
    {[layout |-> layout,
      hook |-> [process_handle |-> <<7>>, base_address |-> <<0>>,
                _offsets |-> << >>, _data_type |-> t],
      value |-> IntVal(42), data_type |-> t, max_results |-> n] :
        layout \in Layouts, t \in {"int8", "int32"}, n \in 0..MaxResults}

ScanInit ==
    /\ scanIn \in ScanInputs
    /\ scanPc = "start"
    /\ current_addr = 0
    /\ addresses = << >>
    /\ scanReads = << >>
    /\ scanReply = Reply(FALSE, << >>)

\* The pattern of the scan run.
ScanPattern ==
    PackSearchValue(scanIn.hook._data_type, scanIn.data_type, scanIn.value)

\* scan_memory up to the region walk: the handle check, the address
\* range and the packing of the search value.
ScanBegin ==
    /\ scanPc = "start"
    /\ IF Truthy(scanIn.hook.process_handle) /\ ScanPattern.ok
       THEN /\ scanPc' = "walk"
            /\ current_addr' = ScanOs(scanIn.layout).min_addr
            /\ scanReply' = scanReply
       ELSE /\ scanPc' = "done"
            /\ current_addr' = current_addr
            /\ scanReply' = ScanReply(FALSE, << >>)
    /\ addresses' = << >>
    /\ UNCHANGED <<scanIn, scanReads>>
    /\ UNCHANGED <<codecVars, resVars, mainVars, widgetVars>>

\* One iteration of the region walk.
ScanRegion ==
    /\ scanPc = "walk"
    /\ WalkContinues(ScanOs(scanIn.layout), current_addr, addresses,
                     scanIn.max_results)
    /\ LET w == WalkRegion(ScanOs(scanIn.layout), scanIn.hook,
                           ScanPattern.bytes, current_addr, addresses,
                           scanIn.max_results)
       IN  /\ current_addr' = w.current_addr
           /\ addresses' = w.addresses
           /\ scanReads' = scanReads \o w.reads
           /\ IF w.stop
              THEN scanPc' = "done" /\ scanReply' = ScanReply(TRUE, w.addresses)
              ELSE scanPc' = "walk" /\ scanReply' = scanReply
    /\ UNCHANGED scanIn
    /\ UNCHANGED <<codecVars, resVars, mainVars, widgetVars>>

\* The walk is over: scan_memory returns the addresses and the handler
\* replies.
ScanReturn ==
    /\ scanPc = "walk"
    /\ ~WalkContinues(ScanOs(scanIn.layout), current_addr, addresses,
                      scanIn.max_results)
    /\ scanPc' = "done"
    /\ scanReply' = ScanReply(TRUE, addresses)
    /\ UNCHANGED <<scanIn, current_addr, addresses, scanReads>>
    /\ UNCHANGED <<codecVars, resVars, mainVars, widgetVars>>

ScanNext == ScanBegin \/ ScanRegion \/ ScanReturn

\* ------------------------------------------------------------------------
\* Walk runs: scan_memory over a sequence of region-query answers
\* ------------------------------------------------------------------------

MaxQueries == 3

\* The answers of VirtualQueryEx to one query: failure, or a region of
\* one page or of no bytes that is committed and readable or reserved.
\* BaseAddress is filled in with the address queried.
QueryAnswers ==
    {[result |-> 0, BaseAddress |-> 0, RegionSize |-> 0, State |-> 0,
      Protect |-> 0]}
    \cup {[result |-> 1, BaseAddress |-> 0, RegionSize |-> n, State |-> st,
           Protect |-> Win.PAGE_READONLY] :
             n \in {0, chunk_size}, st \in {MEM_COMMIT, Win.MEM_RESERVE}}

\* The target of a walk run: two pages, each with the byte 42 at offset
\* 100 and 0 elsewhere; handle 7 is open.
WalkOs ==
    [open |-> {7},
     cells |-> [a \in 0..(2 * chunk_size - 1) |->
                  IF a % chunk_size = 100 THEN 42 ELSE 0],
     partial |-> FALSE,
     regions |-> << >>,
     min_addr |-> 0,
     max_addr |-> 2 * chunk_size - 1]

\* A walk run is a scan whose region queries are answered from answers,
\* one answer per query; a query after the last answer fails.
WalkInputs ==
    {[layout |-> << >>, answers |-> answers,
      hook |-> [process_handle |-> <<7>>, base_address |-> <<0>>,
                _offsets |-> << >>, _data_type |-> "int8"],
      value |-> IntVal(42), data_type |-> "int8", max_results |-> n] :
        answers \in SeqsUpTo(QueryAnswers, MaxQueries), n \in 0..MaxResults}

WalkInit ==
    /\ scanIn \in WalkInputs
    /\ scanPc = "start"
    /\ current_addr = 0
    /\ addresses = << >>
    /\ scanReads = << >>
    /\ scanReply = Reply(FALSE, << >>)

\* scan_memory up to the region walk.
QueryBegin ==
    /\ scanPc = "start"
    /\ scanPc' = "walk"
    /\ current_addr' = WalkOs.min_addr
    /\ addresses' = << >>
    /\ UNCHANGED <<scanIn, scanReads, scanReply>>
    /\ UNCHANGED <<codecVars, resVars, mainVars, widgetVars>>

\* The answer to the query at address cur.
NextAnswer(answers, cur) ==
    IF answers = << >>
    THEN [result |-> 0, BaseAddress |-> 0, RegionSize |-> 0, State |-> 0,
          Protect |-> 0]
    ELSE [Head(answers) EXCEPT !.BaseAddress = cur]

\* One iteration of the region walk with the next answer.
QueryRegion ==
    /\ scanPc = "walk"
    /\ WalkContinues(WalkOs, current_addr, addresses, scanIn.max_results)
    /\ LET w == WalkAnswer(WalkOs, scanIn.hook, ScanPattern.bytes,
                           current_addr, addresses, scanIn.max_results,
                           NextAnswer(scanIn.answers, current_addr))
       IN  /\ current_addr' = w.current_addr
           /\ addresses' = w.addresses
           /\ scanReads' = scanReads \o w.reads
           /\ IF w.stop
              THEN scanPc' = "done" /\ scanReply' = ScanReply(TRUE, w.addresses)
              ELSE scanPc' = "walk" /\ scanReply' = scanReply
    /\ scanIn' = [scanIn EXCEPT !.answers =
                     IF @ = << >> THEN @ ELSE Tail(@)]
    /\ UNCHANGED <<codecVars, resVars, mainVars, widgetVars>>

\* The walk is over: scan_memory returns the addresses.
QueryReturn ==
    /\ scanPc = "walk"
    /\ ~WalkContinues(WalkOs, current_addr, addresses, scanIn.max_results)
    /\ scanPc' = "done"
    /\ scanReply' = ScanReply(TRUE, addresses)
    /\ UNCHANGED <<scanIn, current_addr, addresses, scanReads>>
    /\ UNCHANGED <<codecVars, resVars, mainVars, widgetVars>>

WalkNext == QueryBegin \/ QueryRegion \/ QueryReturn

\* ------------------------------------------------------------------------
\* Resolver runs: resolve a pointer chain, then serve read_memory_value
\* ------------------------------------------------------------------------

MaxOffsets == 2

\* Pointer offsets tried.
OffsetValues == {-8, 0, 8}

\* bs laid out from address a on.
BytesAt(a, bs) == [i \in a..(a + Len(bs) - 1) |-> bs[i - a + 1]]

\* Target memory of a resolver run: bytes 8..27 are mapped, a pointer p8
\* at 8, a pointer p16 at 16 and the 32-bit value 42 at 24.  An 8-byte
\* read at 24 copies 4 bytes only; everything else is unmapped.
ResCells(p8, p16) ==
    LET bs == ToBytes(p8, 8) \o ToBytes(p16, 8) \o ToBytes(42, 4)
    IN  BytesAt(8, bs)

ResInputs ==
    {[hook |-> [process_handle |-> h, base_address |-> <<base>>,
                _offsets |-> offs, _data_type |-> "int32"],
      os |-> [open |-> open, cells |-> ResCells(p8, p16), partial |-> partial]] :
        h \in {<< >>, <<0>>, <<7>>},
        base \in {0, 8, 16, 24, 96},
        offs \in SeqsUpTo(OffsetValues, MaxOffsets),
        open \in {{}, {7}},
        p8 \in {16, 24, 96},
        p16 \in {24, 8, 0},
        partial \in BOOLEAN}

NoAddress == [ok |-> FALSE, address |-> 0, reads |-> << >>]

ResInit ==
    /\ resIn \in ResInputs
    /\ resStage = "start"
    /\ resAddr = NoAddress
    /\ resReply = Reply(FALSE, << >>)

\* A call of _calculate_address on the hook.
ResCalculate ==
    /\ resStage = "start"
    /\ resAddr' = _calculate_address(resIn.os, resIn.hook)
    /\ resStage' = "resolved"
    /\ UNCHANGED <<resIn, resReply>>
    /\ UNCHANGED <<codecVars, scanVars, mainVars, widgetVars>>

\* A read_memory_value command for the hook.
ResReadMemoryValue ==
    /\ resStage = "resolved"
    /\ resReply' = read_memory_value(resIn.os, <<resIn.hook>>)
    /\ resStage' = "replied"
    /\ UNCHANGED <<resIn, resAddr>>
    /\ UNCHANGED <<codecVars, scanVars, mainVars, widgetVars>>

ResNext == ResCalculate \/ ResReadMemoryValue

\* ------------------------------------------------------------------------
\* Relocation runs: reads through a pointer that the target moves
\* ------------------------------------------------------------------------

\* The places the target's pointer leads to, and the values it keeps
\* there.
PointerTargets == {16, 24}

StoredValues == {1, 2}

\* Target memory of a relocation run: bytes 8..35 are mapped, the
\* pointer p at 8 and 32-bit values at 16, 24 and 32.
RelocCells(ptr, v16, v24, v32) ==
    BytesAt(8, ToBytes(ptr, 8) \o ToBytes(v16, 4) \o ZeroBytes(4)
                 \o ToBytes(v24, 4) \o ZeroBytes(4) \o ToBytes(v32, 4))

RelocInputs ==
    {[hook |-> [process_handle |-> <<7>>, base_address |-> <<8>>,
                _offsets |-> <<off>>, _data_type |-> "int32"],
      os |-> [open |-> {7}, cells |-> RelocCells(ptr, 1, 2, 1),
              partial |-> FALSE]] :
        off \in {0, 8}, ptr \in PointerTargets}

RelocInit ==
    /\ resIn \in RelocInputs
    /\ resStage = "start"
    /\ resAddr = NoAddress
    /\ resReply = Reply(FALSE, << >>)

\* A poll of the monitor loop or a read_memory_value command: one call
\* of read_value.  resAddr keeps the address it read at.
RelocRead ==
    /\ resStage /= "idle"
    /\ LET a == AddressOfRead(resIn.os, resIn.hook, resAddr)
       IN  /\ resAddr' = a
           /\ resReply' = ReadValueReply(read_value_at(resIn.os, resIn.hook, a))
    /\ resStage' = IF resStage = "relocated" THEN "reread" ELSE "read"
    /\ UNCHANGED resIn
    /\ UNCHANGED <<codecVars, scanVars, mainVars, widgetVars>>

\* The target moves its data: the pointer at 8 gets another value.
Relocate(ptr) ==
    /\ resStage \in {"read", "reread", "written"}
    /\ FromBytesUnsigned([k \in 1..8 |-> resIn.os.cells[8 + k - 1]]) /= ptr
    /\ resIn' = [resIn EXCEPT !.os.cells =
                    BytesAt(8, ToBytes(ptr, 8)) @@ @]
    /\ resStage' = "relocated"
    /\ UNCHANGED <<resAddr, resReply>>
    /\ UNCHANGED <<codecVars, scanVars, mainVars, widgetVars>>

\* The target writes the 32-bit value v at address a.
StoreValue(a, v) ==
    /\ resStage \in {"read", "reread"}
    /\ resIn.os.cells[a] /= v
    /\ resIn' = [resIn EXCEPT !.os.cells = BytesAt(a, ToBytes(v, 4)) @@ @]
    /\ resStage' = "written"
    /\ UNCHANGED <<resAddr, resReply>>
    /\ UNCHANGED <<codecVars, scanVars, mainVars, widgetVars>>

RelocNext ==
    \/ RelocRead
    \/ \E ptr \in PointerTargets : Relocate(ptr)
    \/ \E a \in {16, 24, 32}, v \in StoredValues : StoreValue(a, v)

\* ------------------------------------------------------------------------
\* Codec runs: encode a value for a scan, decode the bytes with read_value
\* ------------------------------------------------------------------------

\* Values tried per integer tag: the whole range of the 8-bit tags, the
\* ends and the middle of the wider ones as far as the model's integers
\* reach.
TestValues(t) ==
    CASE t = "int8" -> -128..127
      [] t = "uint8" -> 0..255
      [] t = "int16" -> {-32768, -1, 0, 1, 32767}
      [] t = "uint16" -> {0, 1, 65535}
      [] t \in {"int32", "int64"} -> {MinInt32, -1, 0, 1, MaxInt32}
      [] OTHER -> {0, 1, MaxInt32}

CodecInputs ==
    {[hookType |-> t, data_type |-> t, value |-> IntVal(n)] :
        <<t, n>> \in UNION {{<<t, n>> : n \in TestValues(t)} :
                               t \in IntTags \cup UIntTags}}

NoBytes == [ok |-> FALSE, bytes |-> << >>]

CodecInit ==
    /\ codecIn \in CodecInputs
    /\ codecStage = "start"
    /\ codecBytes = NoBytes
    /\ codecOut = BytesVal(<< >>)

CodecEncode ==
    /\ codecStage = "start"
    /\ codecBytes' = PackSearchValue(codecIn.hookType, codecIn.data_type,
                                     codecIn.value)
    /\ codecStage' = "encoded"
    /\ UNCHANGED <<codecIn, codecOut>>
    /\ UNCHANGED <<resVars, scanVars, mainVars, widgetVars>>

CodecDecode ==
    /\ codecStage = "encoded"
    /\ codecBytes.ok
    /\ Len(codecBytes.bytes) = _get_data_size(codecIn.hookType)
    /\ codecOut' = Unpack(codecIn.hookType, codecBytes.bytes)
    /\ codecStage' = "decoded"
    /\ UNCHANGED <<codecIn, codecBytes>>
    /\ UNCHANGED <<resVars, scanVars, mainVars, widgetVars>>

CodecNext == CodecEncode \/ CodecDecode

\* ------------------------------------------------------------------------
\* Widget attributes (src/hcreative_streamwidget/widgets.py)
\* ------------------------------------------------------------------------

\* A Python string is a sequence of pieces of text; a dict is the
\* sequence of its [key, value] items in insertion order.

\* The decimal digits of the natural number n: str(n).
RECURSIVE Digits(_)
Digits(n) ==
    LET digit == <<"0", "1", "2", "3", "4", "5", "6", "7", "8", "9">>
    IN  IF n < 10 THEN <<digit[n + 1]>>
        ELSE Digits(n \div 10) \o <<digit[(n % 10) + 1]>>

\* key in dict
HasKey(dict, key) == \E i \in 1..Len(dict) : dict[i].key = key

\* dict[key], for a key of the dict
GetItem(dict, key) ==
    dict[CHOOSE i \in 1..Len(dict) : dict[i].key = key].value

\* dict[key] = value: a key of the dict keeps its place, a new key goes
\* to the end.
SetItem(dict, key, value) ==
    IF HasKey(dict, key)
    THEN [i \in 1..Len(dict) |->
             IF dict[i].key = key THEN [key |-> key, value |-> value] ELSE dict[i]]
    ELSE Append(dict, [key |-> key, value |-> value])

\* _add_style with an assignment in the place of +=.
_set_style(dict, css) == SetItem(dict, "style", css \o <<"; ">>)

\* Attributes._add_style
_add_style(dict, css) ==
    LET started == IF HasKey(dict, "style") THEN dict
                   ELSE SetItem(dict, "style", << >>)
    IN  SetItem(started, "style", GetItem(started, "style") \o css \o <<"; ">>)

\* Attributes.mime
mime(dict, value) == SetItem(dict, "type", value)

\* Attributes.bg
bg(dict, value) == _add_style(dict, <<"background: ">> \o value)

\* Attributes.fg
fg(dict, value) == _add_style(dict, <<"color: ">> \o value)

\* Attributes.font
font(dict, value) == _add_style(dict, <<"font-family: ">> \o value)

\* Attributes.font_size
font_size(dict, value) ==
    _add_style(dict, <<"font-size: ">> \o Digits(value) \o <<"px">>)

\* Attributes.border
border(dict, value) ==
    _add_style(dict, <<"border: ">> \o value.width \o <<" ">> \o value.style
                         \o <<" ">> \o value.color)

\* Attributes.flex
flex(dict, value) ==
    IF value = <<"center">>
    THEN _add_style(dict, <<"display: flex", "; ", "justify-content: center",
                            "; ", "align-items: center">>)
    ELSE _add_style(dict, <<"display: flex">>)

\* An attribute run makes at most MaxCalls calls.
MaxCalls == 3

AttrInit ==
    /\ attrs = << >>
    /\ styleCalls = << >>

\* A call of the style method with the value on the Attributes under
\* test, which becomes after.
StyleCall(method, value, after) ==
    /\ Len(styleCalls) < MaxCalls
    /\ attrs' = after
    /\ styleCalls' = Append(styleCalls, [method |-> method, value |-> <<value>>])
    /\ UNCHANGED <<renderIn, elem, html, renderStage>>
    /\ UNCHANGED serverVars
    /\ UNCHANGED <<codecVars, resVars, scanVars, mainVars>>

Bg(value) == StyleCall("bg", value, bg(attrs, value))

Fg(value) == StyleCall("fg", value, fg(attrs, value))

Font(value) == StyleCall("font", value, font(attrs, value))

FontSize(value) == StyleCall("font_size", value, font_size(attrs, value))

Border(value) == StyleCall("border", value, border(attrs, value))

Flex(value) == StyleCall("flex", value, flex(attrs, value))

\* A call of mime, which is no style method.
Mime(value) ==
    /\ Len(attrs) < MaxCalls + 1
    /\ ~HasKey(attrs, "type")
    /\ attrs' = mime(attrs, value)
    /\ UNCHANGED <<styleCalls, renderIn, elem, html, renderStage>>
    /\ UNCHANGED serverVars
    /\ UNCHANGED <<codecVars, resVars, scanVars, mainVars>>

AttrNext ==
    \/ \E value \in {<<"#000000">>} : Bg(value)
    \/ \E value \in {<<"#FFFFFF">>} : Fg(value)
    \/ \E value \in {<<"Arial">>} : Font(value)
    \/ \E value \in {14, 9} : FontSize(value)
    \/ \E value \in {[width |-> <<"2px">>, style |-> <<"solid">>,
                       color |-> <<"#FF0000">>]} : Border(value)
    \/ \E value \in {<<"center">>, <<"row">>} : Flex(value)
    \/ \E value \in {<<"text/css">>} : Mime(value)

\* ------------------------------------------------------------------------
\* Elements and their rendering (src/hcreative_streamwidget/widgets.py)
\* ------------------------------------------------------------------------

\* A content value: None, a string, a number or a list of children.
NoContent == [kind |-> "none", text |-> << >>, v |-> 0, items |-> << >>]

StrContent(text) == [kind |-> "str", text |-> text, v |-> 0, items |-> << >>]

IntContent(n) == [kind |-> "int", text |-> << >>, v |-> n, items |-> << >>]

ListContent(items) == [kind |-> "list", text |-> << >>, v |-> 0, items |-> items]

\* A child that is a string or a number.
StrNode(text) ==
    [node |-> "str", tag |-> "", content |-> StrContent(text), attrs |-> << >>]

IntNode(n) ==
    [node |-> "int", tag |-> "", content |-> IntContent(n), attrs |-> << >>]

\* The attrs argument of Element(...): None, an Attributes dict, or a
\* value that is no dict.
NoAttrs == [kind |-> "none", dict |-> << >>, node |-> StrNode(<< >>)]

DictAttrs(dict) == [kind |-> "dict", dict |-> dict, node |-> StrNode(<< >>)]

NodeAttrs(node) == [kind |-> "node", dict |-> << >>, node |-> node]

\* Truth value of a content value: None, '', 0 and [] are false.
ContentTruthy(c) ==
    CASE c.kind = "str" -> c.text /= << >>
      [] c.kind = "int" -> c.v /= 0
      [] c.kind = "list" -> c.items /= << >>
      [] OTHER -> FALSE

\* A content value as a child of a list.
AsNode(c) == IF c.kind = "int" THEN IntNode(c.v) ELSE StrNode(c.text)

\* Element.__init__
Element(tag, content, attrsArg) ==
    LET given == IF ContentTruthy(content) THEN content ELSE ListContent(<< >>)
        held == IF attrsArg.kind = "node"
                THEN (IF given.kind = "list"
                      THEN ListContent(Append(given.items, attrsArg.node))
                      ELSE ListContent(<<AsNode(given), attrsArg.node>>))
                ELSE given
    IN  [node |-> "element", tag |-> tag, content |-> held,
         attrs |-> IF attrsArg.kind = "dict" THEN attrsArg.dict ELSE << >>]

\* ''.join with the parts taken from the last to the first.
RECURSIVE JoinReversed(_)
JoinReversed(parts) ==
    IF parts = << >> THEN << >> ELSE JoinReversed(Tail(parts)) \o Head(parts)

\* ''.join(parts)
RECURSIVE Join(_)
Join(parts) ==
    IF parts = << >> THEN << >> ELSE Head(parts) \o Join(Tail(parts))

\* ' '.join(f'{key}="{value}"' for key, value in self.attrs.items())
RECURSIVE attr_str(_)
attr_str(dict) ==
    IF dict = << >> THEN << >>
    ELSE <<Head(dict).key, "=\"">> \o Head(dict).value \o <<"\"">>
            \o (IF Tail(dict) = << >> THEN << >> ELSE <<" ">>)
            \o attr_str(Tail(dict))

\* str(c) of a child that is no Element
str(c) == IF c.node = "int" THEN Digits(c.content.v) ELSE c.content.text

\* Element.render
RECURSIVE render(_)
render(e) ==
    LET inner ==
            CASE e.content.kind = "str" -> e.content.text
              [] e.content.kind = "list" ->
                    Join([i \in 1..Len(e.content.items) |->
                             IF e.content.items[i].node = "element"
                             THEN render(e.content.items[i])
                             ELSE str(e.content.items[i])])
              [] OTHER -> Digits(e.content.v)
    IN  <<"<", e.tag, " ">> \o attr_str(e.attrs) \o <<">">> \o inner
           \o <<"</", e.tag, ">">>

\* A list of a render run has at most MaxChildren children.
MaxChildren == 2

\* The children of the render runs: the string ' World', the number 14
\* and span elements over a string or a list of those two.
Leaves == {StrNode(<<" World">>), IntNode(14)}

Spans ==
    {Element("span", c, NoAttrs) :
        c \in {StrContent(<<"Hello">>)}
                 \cup {ListContent(q) : q \in SeqsUpTo(Leaves, MaxChildren)}}

AttrArgs ==
    {NoAttrs,
     DictAttrs(<<[key |-> "id", value |-> <<"main">>],
                 [key |-> "type", value |-> <<"text/css">>]>>),
     NodeAttrs(StrNode(<<"!">>))}

RenderInputs ==
    {[tag |-> "div", content |-> c, attrs |-> a] :
        c \in {ListContent(q) : q \in SeqsUpTo(Leaves \cup Spans, MaxChildren)}
                 \cup {NoContent, StrContent(<< >>), StrContent(<<"Hello">>),
                       IntContent(14)},
        a \in AttrArgs}

NoElement == Element("", NoContent, NoAttrs)

RenderInit ==
    /\ renderIn \in RenderInputs
    /\ elem = NoElement
    /\ html = << >>
    /\ renderStage = "start"

\* Element(tag, content, attrs)
Construct ==
    /\ renderStage = "start"
    /\ elem' = Element(renderIn.tag, renderIn.content, renderIn.attrs)
    /\ renderStage' = "built"
    /\ UNCHANGED <<attrs, styleCalls, renderIn, html>>
    /\ UNCHANGED serverVars
    /\ UNCHANGED <<codecVars, resVars, scanVars, mainVars>>

\* element.render()
Render ==
    /\ renderStage = "built"
    /\ html' = render(elem)
    /\ renderStage' = "rendered"
    /\ UNCHANGED <<attrs, styleCalls, renderIn, elem>>
    /\ UNCHANGED serverVars
    /\ UNCHANGED <<codecVars, resVars, scanVars, mainVars>>

RenderNext == Construct \/ Render

\* ------------------------------------------------------------------------
\* Hook registry and monitor loops
\* ------------------------------------------------------------------------

MaxHooks == 2

MaxThreads == 2

MaxWrites == 1

HookIds == {"h1", "h2"}

Hooks == 1..MaxHooks

Threads == 1..MaxThreads

\* The process snapshot: the target, which can be opened, and a protected
\* process, for which OpenProcess returns NULL.
Snapshot ==
    <<[name |-> "System", pid |-> 4, openable |-> FALSE],
      [name |-> "Game.exe", pid |-> 10, openable |-> TRUE]>>

\* The process names a create_memory_hook command may carry.
ProcessNames == {"game.exe", "system", "absent.exe"}

\* str.lower()
Lower(name) ==
    CASE name = "System" -> "system"
      [] name = "Game.exe" -> "game.exe"
      [] OTHER -> name

\* The targets a create_memory_hook command may carry: the byte at 16.
HookTargets == {[base_address |-> 16, offsets |-> << >>]}

\* The byte values the target writes to address 16.
TargetValues == {1, 2}

\* MemoryHook.__init__
NewHook(process_name) ==
    [process_name |-> process_name, process_handle |-> << >>,
     base_address |-> << >>, _offsets |-> << >>, _data_type |-> "int32",
     _running |-> FALSE, _thread |-> << >>, value_changed_callbacks |-> << >>]

\* MemoryHook.set_target
set_target(h, base_address, offsets, data_type) ==
    [h EXCEPT !.base_address = <<base_address>>, !._offsets = offsets,
              !._data_type = data_type]

\* kernel32.OpenProcess for the process entry pe32; fresh is the handle
\* value the system hands out next.
OpenProcess(pe32, fresh) == IF pe32.openable THEN fresh ELSE 0

\* attach without the comparison of the names: the first process of the
\* snapshot is taken.
attach_first_process(h, snapshotOk, fresh) ==
    IF ~snapshotOk
    THEN [hook |-> h, result |-> FALSE]
    ELSE LET handle == OpenProcess(Snapshot[1], fresh)
         IN  [hook |-> [h EXCEPT !.process_handle = <<handle>>],
              result |-> <<handle>> /= << >>]

\* MemoryHook.attach: the hook after the call and the value returned.
\* snapshotOk tells whether CreateToolhelp32Snapshot succeeded.
attach(h, snapshotOk, fresh) ==
    LET match == {i \in 1..Len(Snapshot) :
                     Lower(Snapshot[i].name) = Lower(h.process_name)}
    IN  IF ~snapshotOk \/ match = {}
        THEN [hook |-> h, result |-> FALSE]
        ELSE LET handle == OpenProcess(Snapshot[Min(match)], fresh)
             IN  [hook |-> [h EXCEPT !.process_handle = <<handle>>],
                  result |-> <<handle>> /= << >>]

\* The handle value OpenProcess hands out to hook object o.
HandleOf(o) == 4 * o

\* A monitor thread: its position, its hook object, the hook_id of its
\* callback, the locals of monitor(), and failed, the number of failing
\* polls since it last went through a whole iteration (at most MaxFailed
\* are counted).
MaxFailed == 2

NoThread == [pc |-> "unborn", obj |-> 0, hook_id |-> "", interval |-> 0,
             last_value |-> << >>, current_value |-> << >>, failed |-> 0]

CmdIdle == [op |-> "idle", hook_id |-> "", obj |-> 0]

\* The outcome of the last command: the reply r that the caller receives,
\* with the command op, the hook_id and (for a create_memory_hook) the
\* process_name it was given.
CmdReply(op, hook_id, r) ==
    [op |-> op, hook_id |-> hook_id, process_name |-> "", result |-> r]

CreateReply(hook_id, process_name, r) ==
    [op |-> "create", hook_id |-> hook_id, process_name |-> process_name,
     result |-> r]

Alive(t) == thread[t].pc \notin {"unborn", "done"}

\* The target process at the start: no handle is open, its address space
\* is one committed read-only region of TargetSize bytes that are 0 but
\* for the byte 1 at address 16.
TargetSize == 32

TargetOs ==
    [open |-> {},
     cells |-> [a \in 0..(TargetSize - 1) |-> IF a = 16 THEN 1 ELSE 0],
     partial |-> FALSE,
     regions |-> <<[base |-> 0, size |-> TargetSize, state |-> MEM_COMMIT,
                    protect |-> Win.PAGE_READONLY]>>,
     min_addr |-> 0,
     max_addr |-> TargetSize - 1]

MainInit ==
    /\ hooks = [id \in HookIds |-> << >>]
    /\ objects = [o \in Hooks |-> NewHook("")]
    /\ thread = [t \in Threads |-> NoThread]
    /\ system = TargetOs
    /\ cmd = CmdIdle
    /\ reply = CmdReply("none", "", Reply(FALSE, << >>))
    /\ notifications = << >>
    /\ writes = 0
    /\ hookPolled = [o \in Hooks |-> << >>]
    /\ detached = {}
    /\ pending = << >>
    /\ host = "running"
    /\ invoked = << >>

notMain == <<codecVars, resVars, scanVars, widgetVars>>

\* The hook objects made so far.
Made == {o \in Hooks : objects[o].process_name /= ""}

\* self.hooks[hook_id] = hook, with a variant that keeps an entry that is
\* already there.
StoreHookIfAbsent(registry, hook_id, o) ==
    IF registry[hook_id] = << >>
    THEN [registry EXCEPT ![hook_id] = <<o>>]
    ELSE registry

\* self.hooks[hook_id] = hook
StoreHook(registry, hook_id, o) == [registry EXCEPT ![hook_id] = <<o>>]

\* MemoryHookBuiltin.create_memory_hook for a payload that holds every
\* field and a base address that parses.
CreateMemoryHook(hook_id, process_name, target, snapshotOk) ==
    /\ cmd.op = "idle"
    /\ LET o == Cardinality(Made) + 1
           h == set_target(NewHook(process_name), target.base_address,
                           target.offsets, "int8")
           a == attach(h, snapshotOk, HandleOf(o))
       IN  IF a.result
           THEN /\ Cardinality(Made) < MaxHooks
                /\ objects' = [objects EXCEPT ![o] = a.hook]
                /\ hooks' = StoreHook(hooks, hook_id, o)
                /\ system' = [system EXCEPT !.open =
                             IF Truthy(a.hook.process_handle)
                             THEN system.open \cup {a.hook.process_handle[1]}
                             ELSE system.open]
                /\ reply' = CreateReply(hook_id, process_name, Reply(TRUE, << >>))
           ELSE /\ UNCHANGED <<objects, hooks, system>>
                /\ reply' = CreateReply(hook_id, process_name,
                                        Reply(FALSE, << >>))
    /\ UNCHANGED <<thread, cmd, notifications, writes, hookPolled, detached>>
    /\ UNCHANGED pending
    /\ UNCHANGED <<host, invoked>>
    /\ UNCHANGED notMain

\* A start on a running hook that hands its callback and interval to the
\* running loop.
StartWhileRunningAdopts(o, hook_id, interval) ==
    [hook |-> objects,
     thread |-> [t \in Threads |->
                   IF thread[t].obj = o /\ thread[t].pc \notin {"unborn", "done"}
                   THEN [thread[t] EXCEPT !.hook_id = hook_id,
                                          !.interval = interval]
                   ELSE thread[t]]]

\* if self._running: return
StartWhileRunning(o, hook_id, interval) ==
    [hook |-> objects, thread |-> thread]

\* start_monitoring with a last value that is kept with the hook: the new
\* loop begins with the value that the hook's loops polled last.
start_monitoring_keeps_last_value(o, hook_id, interval, t) ==
    IF objects[o]._running
    THEN StartWhileRunning(o, hook_id, interval)
    ELSE [hook |-> [objects EXCEPT ![o]._running = TRUE, ![o]._thread = <<t>>],
          thread |-> [thread EXCEPT ![t] =
                         [pc |-> "wait", obj |-> o, hook_id |-> hook_id,
                          interval |-> interval,
                          last_value |-> hookPolled[o],
                          current_value |-> << >>, failed |-> 0]]]

\* MemoryHook.start_monitoring on hook object o with the callback of
\* start_memory_monitoring(hook_id) and the interval: the objects and
\* threads after it.  t is the thread the call would create; callback and
\* interval belong to the thread's function monitor().
start_monitoring(o, hook_id, interval, t) ==
    IF objects[o]._running
    THEN StartWhileRunning(o, hook_id, interval)
    ELSE [hook |-> [objects EXCEPT ![o]._running = TRUE, ![o]._thread = <<t>>],
          thread |-> [thread EXCEPT ![t] =
                         [pc |-> "wait", obj |-> o, hook_id |-> hook_id,
                          interval |-> interval,
                          last_value |-> << >>, current_value |-> << >>,
                          failed |-> 0]]]

\* The threads created so far.
Born == {t \in Threads : thread[t].pc /= "unborn"}

\* MemoryHookBuiltin.start_memory_monitoring for a payload with the given
\* interval
StartMemoryMonitoringEvery(hook_id, interval) ==
    /\ cmd.op = "idle"
    /\ IF hooks[hook_id] = << >>
       THEN /\ reply' = CmdReply("start", hook_id, Reply(FALSE, << >>))
            /\ UNCHANGED <<objects, thread>>
       ELSE /\ objects[hooks[hook_id][1]]._running \/ Cardinality(Born) < MaxThreads
            /\ LET st == start_monitoring(hooks[hook_id][1], hook_id, interval,
                                          Cardinality(Born) + 1)
               IN  objects' = st.hook /\ thread' = st.thread
            /\ reply' = CmdReply("start", hook_id, Reply(TRUE, << >>))
    /\ UNCHANGED <<hooks, system, cmd, notifications, writes, hookPolled, detached>>
    /\ UNCHANGED pending
    /\ UNCHANGED <<host, invoked>>
    /\ UNCHANGED notMain

\* interval = data.get('interval', 1.0)
DefaultInterval == 1

\* MemoryHookBuiltin.start_memory_monitoring for a payload without
\* interval
StartMemoryMonitoring(hook_id) ==
    StartMemoryMonitoringEvery(hook_id, DefaultInterval)

\* detach without the assignment of None: the handle is closed and kept.
detach_keeps_handle(o, hk, sys) ==
    IF Truthy(hk[o].process_handle)
    THEN [hook |-> hk,
          os |-> [sys EXCEPT !.open = sys.open \ {hk[o].process_handle[1]}]]
    ELSE [hook |-> hk, os |-> sys]

\* MemoryHook.detach: closes the handle and forgets it.
detach(o, hk, sys) ==
    IF Truthy(hk[o].process_handle)
    THEN [hook |-> [hk EXCEPT ![o].process_handle = << >>],
          os |-> [sys EXCEPT !.open = sys.open \ {hk[o].process_handle[1]}]]
    ELSE [hook |-> hk, os |-> sys]

\* The threads of hook object o that are alive.
LoopsOf(o) == {t \in Threads : thread[t].obj = o /\ Alive(t)}

\* stop_monitoring up to the join without the assignment to the flag.
StopMonitoringBeginKeepsFlag(op, hook_id, o) ==
    /\ objects' = objects
    /\ cmd' = [op |-> op, hook_id |-> hook_id, obj |-> o]

\* MemoryHook.stop_monitoring up to the join: the flag is cleared and,
\* when the hook holds a thread, the command path blocks in
\* self._thread.join(timeout=1.0).  op is the command that called it.
StopMonitoringBegin(op, hook_id, o) ==
    /\ objects' = [objects EXCEPT ![o]._running = FALSE]
    /\ cmd' = [op |-> op, hook_id |-> hook_id, obj |-> o]

\* The rest of a command after stop_monitoring: self._thread = None, the
\* detach of detach_memory_hook, and the reply.
AfterStopMonitoring(op, hook_id, o, hk) ==
    /\ IF op = "detach"
       THEN /\ objects' = detach(o, hk, system).hook
            /\ system' = detach(o, hk, system).os
            /\ detached' = detached \cup {o}
       ELSE /\ objects' = hk
            /\ UNCHANGED <<system, detached>>
    /\ reply' = CmdReply(op, hook_id, Reply(TRUE, << >>))

\* MemoryHookBuiltin.stop_memory_monitoring
StopMemoryMonitoring(hook_id) ==
    /\ cmd.op = "idle"
    /\ IF hooks[hook_id] = << >>
       THEN /\ reply' = CmdReply("stop", hook_id, Reply(TRUE, << >>))
            /\ UNCHANGED <<objects, system, cmd, detached>>
       ELSE LET o == hooks[hook_id][1]
            IN  IF objects[o]._thread /= << >>
                THEN /\ StopMonitoringBegin("stop", hook_id, o)
                     /\ UNCHANGED <<system, reply, detached>>
                ELSE /\ AfterStopMonitoring("stop", hook_id, o,
                             [objects EXCEPT ![o]._running = FALSE])
                     /\ UNCHANGED cmd
    /\ UNCHANGED <<hooks, thread, notifications, writes, hookPolled>>
    /\ UNCHANGED pending
    /\ UNCHANGED <<host, invoked>>
    /\ UNCHANGED notMain

\* self.hooks.pop(...) with a variant that empties the registry.
PopEveryHook(registry, hook_id) == [id \in DOMAIN registry |-> << >>]

\* self.hooks.pop(hook_id, None): the registry after it.
PopHook(registry, hook_id) == [registry EXCEPT ![hook_id] = << >>]

\* MemoryHookBuiltin.detach_memory_hook
DetachMemoryHook(hook_id) ==
    /\ cmd.op = "idle"
    /\ hooks' = PopHook(hooks, hook_id)
    /\ IF hooks[hook_id] = << >>
       THEN /\ reply' = CmdReply("detach", hook_id, Reply(TRUE, << >>))
            /\ UNCHANGED <<objects, system, cmd, detached>>
       ELSE LET o == hooks[hook_id][1]
            IN  IF objects[o]._thread /= << >>
                THEN /\ StopMonitoringBegin("detach", hook_id, o)
                     /\ UNCHANGED <<system, reply, detached>>
                ELSE /\ AfterStopMonitoring("detach", hook_id, o,
                             [objects EXCEPT ![o]._running = FALSE])
                     /\ UNCHANGED cmd
    /\ UNCHANGED <<thread, notifications, writes, hookPolled>>
    /\ UNCHANGED pending
    /\ UNCHANGED <<host, invoked>>
    /\ UNCHANGED notMain

\* self._thread.join(timeout=1.0) returns because the thread has ended;
\* the command goes on to its end.
JoinEnds ==
    /\ cmd.op /= "idle"
    /\ thread[objects[cmd.obj]._thread[1]].pc = "done"
    /\ AfterStopMonitoring(cmd.op, cmd.hook_id, cmd.obj,
                           [objects EXCEPT ![cmd.obj]._thread = << >>])
    /\ cmd' = CmdIdle
    /\ UNCHANGED <<hooks, thread, notifications, writes, hookPolled>>
    /\ UNCHANGED pending
    /\ UNCHANGED <<host, invoked>>
    /\ UNCHANGED notMain

\* self._thread.join(timeout=1.0) returns because the second has passed
\* while the thread is still alive; the command goes on to its end.
JoinTimesOut ==
    /\ cmd.op /= "idle"
    /\ thread[objects[cmd.obj]._thread[1]].pc /= "done"
    /\ AfterStopMonitoring(cmd.op, cmd.hook_id, cmd.obj,
                           [objects EXCEPT ![cmd.obj]._thread = << >>])
    /\ cmd' = CmdIdle
    /\ UNCHANGED <<hooks, thread, notifications, writes, hookPolled>>
    /\ UNCHANGED pending
    /\ UNCHANGED <<host, invoked>>
    /\ UNCHANGED notMain

\* current_value != last_value with the value of a successful read
ValueChanged(current_value, last_value) == <<current_value>> /= last_value

\* monitor(): while self._running, evaluated when the thread starts and
\* each time time.sleep(interval) returns (pc "wait" covers both).
LoopCheck(t) ==
    /\ thread[t].pc = "wait"
    /\ thread' = [thread EXCEPT ![t] =
                     IF objects[thread[t].obj]._running
                     THEN [@ EXCEPT !.pc = "read"]
                     ELSE [@ EXCEPT !.pc = "done", !.last_value = << >>,
                                    !.current_value = << >>, !.failed = 0]]
    /\ UNCHANGED <<hooks, objects, system, cmd, reply, notifications, writes,
                   hookPolled, detached>>
    /\ UNCHANGED pending
    /\ UNCHANGED <<host, invoked>>
    /\ UNCHANGED notMain

\* except Exception: the thread after a failing poll, with a variant in
\* which the failure ends the loop.
PollFailedEndsLoop(th) ==
    [th EXCEPT !.pc = "done", !.last_value = << >>, !.current_value = << >>,
               !.failed = 0]

\* except Exception as e: print(...); time.sleep(interval); continue
PollFailed(th) ==
    [th EXCEPT !.pc = "wait",
               !.failed = IF @ < MaxFailed THEN @ + 1 ELSE MaxFailed]

\* monitor(): current_value = self.read_value() and the comparison with
\* last_value; a read that raises leads to the sleep of the handler, a
\* read of the same value to the sleep at the end of the loop body.
LoopRead(t) ==
    /\ thread[t].pc = "read"
    /\ \E r \in {read_value(system, objects[thread[t].obj])} :
           IF ~r.ok
           THEN /\ thread' = [thread EXCEPT ![t] = PollFailed(@)]
                /\ UNCHANGED <<hookPolled, pending>>
           ELSE /\ IF ValueChanged(r.value, thread[t].last_value)
                   THEN /\ thread' = [thread EXCEPT ![t].pc = "notify",
                                                    ![t].current_value = <<r.value>>,
                                                    ![t].last_value = <<r.value>>]
                        /\ pending' = Append(pending, t)
                   ELSE /\ thread' = [thread EXCEPT ![t].pc = "wait",
                                                    ![t].current_value = <<r.value>>,
                                                    ![t].failed = 0]
                        /\ UNCHANGED pending
                /\ hookPolled' = [hookPolled EXCEPT ![thread[t].obj] = <<r.value>>]
    /\ UNCHANGED <<hooks, objects, system, cmd, reply, notifications, writes, detached>>
    /\ UNCHANGED <<host, invoked>>
    /\ UNCHANGED notMain

\* on_value_change of start_memory_monitoring: the event sent to the
\* client; thread records which loop sent it.
on_value_change(t, value) ==
    [hook_id |-> thread[t].hook_id, value |-> value, thread |-> t]

\* monitor(): callback(current_value)
LoopNotify(t) ==
    /\ thread[t].pc = "notify"
    /\ notifications' = Append(notifications,
                               on_value_change(t, thread[t].current_value[1]))
    /\ thread' = [thread EXCEPT ![t].pc = "wait", ![t].failed = 0]
    /\ pending' = SelectSeq(pending, LAMBDA u : u /= t)
    /\ UNCHANGED <<hooks, objects, system, cmd, reply, writes, hookPolled, detached>>
    /\ UNCHANGED <<host, invoked>>
    /\ UNCHANGED notMain

LoopStep(t) == LoopCheck(t) \/ LoopRead(t) \/ LoopNotify(t)

\* The target process writes another byte to address 16.
TargetWrite(v) ==
    /\ writes < MaxWrites
    /\ 16 \in DOMAIN system.cells
    /\ system.cells[16] /= v
    /\ system' = [system EXCEPT !.cells[16] = v]
    /\ writes' = writes + 1
    /\ UNCHANGED <<hooks, objects, thread, cmd, reply, notifications,
                   hookPolled, detached>>
    /\ UNCHANGED pending
    /\ UNCHANGED <<host, invoked>>
    /\ UNCHANGED notMain

\* The target process frees its memory: reads of it fail from now on.
TargetUnmap ==
    /\ DOMAIN system.cells /= {}
    /\ system' = [system EXCEPT !.cells = [a \in {} |-> 0]]
    /\ UNCHANGED <<hooks, objects, thread, cmd, reply, notifications, writes,
                   hookPolled, detached>>
    /\ UNCHANGED pending
    /\ UNCHANGED <<host, invoked>>
    /\ UNCHANGED notMain

\* The target process maps its memory again, with the byte v at 16.
TargetMap(v) ==
    /\ writes < MaxWrites
    /\ DOMAIN system.cells = {}
    /\ system' = [system EXCEPT !.cells = [TargetOs.cells EXCEPT ![16] = v]]
    /\ writes' = writes + 1
    /\ UNCHANGED <<hooks, objects, thread, cmd, reply, notifications,
                   hookPolled, detached>>
    /\ UNCHANGED pending
    /\ UNCHANGED <<host, invoked>>
    /\ UNCHANGED notMain

\* The hook ids and process names that the commands of the monitoring
\* runs carry; a monitoring run makes one hook object.
MonitoredIds == {"h1"}

MonitoredNames == {"game.exe", "absent.exe"}

Next ==
    \/ \E id \in MonitoredIds, name \in MonitoredNames,
          target \in HookTargets, snapshotOk \in BOOLEAN :
            Made = {} /\ CreateMemoryHook(id, name, target, snapshotOk)
    \/ \E id \in MonitoredIds : StartMemoryMonitoring(id)
    \/ \E id \in MonitoredIds : StopMemoryMonitoring(id)
    \/ \E id \in MonitoredIds : DetachMemoryHook(id)
    \/ JoinEnds
    \/ JoinTimesOut
    \/ \E t \in Threads : LoopCheck(t)
    \/ \E t \in Threads : LoopRead(t)
    \/ \E t \in Threads : LoopNotify(t)
    \/ \E v \in TargetValues : TargetWrite(v)

\* The polling runs: one hook is made, started and stopped while the
\* target frees and maps its memory.
PollNext ==
    \/ \E id \in MonitoredIds, name \in MonitoredNames,
          target \in HookTargets, snapshotOk \in BOOLEAN :
            Made = {} /\ CreateMemoryHook(id, name, target, snapshotOk)
    \/ \E id \in MonitoredIds : StartMemoryMonitoring(id)
    \/ \E id \in MonitoredIds : StopMemoryMonitoring(id)
    \/ JoinEnds
    \/ JoinTimesOut
    \/ \E t \in Threads : LoopCheck(t)
    \/ \E t \in Threads : LoopRead(t)
    \/ \E t \in Threads : LoopNotify(t)
    \/ TargetUnmap
    \/ \E v \in TargetValues : TargetMap(v)

\* ------------------------------------------------------------------------
\* Subscriber runs: a hook with callbacks added to it
\* ------------------------------------------------------------------------

\* A hook of a subscriber run gets at most MaxCallbacks added callbacks.
MaxCallbacks == 2

\* MemoryHook.add_value_changed_callback on hook object o; the callbacks
\* are numbered in the order in which they are added.
AddValueChangedCallback(o) ==
    /\ cmd.op = "idle"
    /\ o \in Made
    /\ Len(objects[o].value_changed_callbacks) < MaxCallbacks
    /\ objects' = [objects EXCEPT ![o].value_changed_callbacks =
                      Append(@, Len(@) + 1)]
    /\ UNCHANGED <<hooks, thread, system, cmd, reply, notifications, writes,
                   hookPolled, detached, pending>>
    /\ UNCHANGED <<host, invoked>>
    /\ UNCHANGED notMain

\* The subscribers of hook object o in the order in which monitor()
\* calls them: 0 is the callback given to start_monitoring.
Subscribers(o) == <<0>> \o objects[o].value_changed_callbacks

\* The subscribers that are called when those of raising raise: the
\* calls end with the first one that raises.
Called(subs, raising) ==
    LET bad == {i \in 1..Len(subs) : subs[i] \in raising}
    IN  IF bad = {} THEN subs ELSE SubSeq(subs, 1, Min(bad))

\* monitor(): callback(current_value), then cb(current_value) for every
\* added callback, inside the try block; raising are the subscribers
\* that raise when they are called.  An exception leads to the handler
\* (print, sleep, continue).  The callback given to start_monitoring
\* sends the event unless it raises.
LoopCallbacks(t, raising) ==
    /\ thread[t].pc = "notify"
    /\ raising \subseteq {Subscribers(thread[t].obj)[i] :
                              i \in 1..Len(Subscribers(thread[t].obj))}
    /\ LET called == Called(Subscribers(thread[t].obj), raising)
           value == thread[t].current_value[1]
       IN  /\ notifications' = IF 0 \in raising THEN notifications
                                ELSE Append(notifications,
                                            on_value_change(t, value))
           /\ invoked' = invoked \o [k \in 1..Len(called) |->
                                        [subscriber |-> called[k],
                                         value |-> value, thread |-> t]]
    /\ thread' = [thread EXCEPT ![t] =
                     IF raising = {} THEN [@ EXCEPT !.pc = "wait", !.failed = 0]
                     ELSE PollFailed(@)]
    /\ pending' = SelectSeq(pending, LAMBDA u : u /= t)
    /\ UNCHANGED <<hooks, objects, system, cmd, reply, writes, hookPolled,
                   detached, host>>
    /\ UNCHANGED notMain

\* The subscriber runs: one hook is made, callbacks are added to it, it
\* is started and polls a target that writes.
NotifyNext ==
    \/ \E id \in MonitoredIds, target \in HookTargets :
          Made = {} /\ CreateMemoryHook(id, "game.exe", target, TRUE)
    \/ \E o \in Hooks : AddValueChangedCallback(o)
    \/ \E id \in MonitoredIds : StartMemoryMonitoring(id)
    \/ \E t \in Threads : LoopCheck(t)
    \/ \E t \in Threads : LoopRead(t)
    \/ \E t \in Threads, raising \in SUBSET (0..MaxCallbacks) :
          LoopCallbacks(t, raising)
    \/ \E v \in TargetValues : TargetWrite(v)

\* ------------------------------------------------------------------------
\* Registry runs: the command handlers with their payloads
\* ------------------------------------------------------------------------

\* A payload is a record of optional fields: << >> for a missing key.
\* A base_address is an integer or a string, a sequence of characters.
IntBase(n) == [str |-> FALSE, v |-> n, text |-> << >>]

StrBase(text) == [str |-> TRUE, v |-> 0, text |-> text]

HexDigits == <<"0", "1", "2", "3", "4", "5", "6", "7", "8", "9",
               "a", "b", "c", "d", "e", "f">>

\* int(text, 16) from the digits of text on, with the value acc of the
\* digits before them: ok is FALSE when int raises ValueError.
RECURSIVE HexInt(_, _)
HexInt(text, acc) ==
    IF text = << >>
    THEN [ok |-> TRUE, v |-> acc]
    ELSE LET digit == {d \in 1..Len(HexDigits) : HexDigits[d] = Head(text)}
         IN  IF digit = {}
             THEN [ok |-> FALSE, v |-> 0]
             ELSE HexInt(Tail(text), 16 * acc + (CHOOSE d \in digit : TRUE) - 1)

\* int(data['base_address'], 16) if isinstance(data['base_address'], str)
\* else data['base_address']
ParseBase(b) ==
    IF b.str
    THEN (IF b.text = << >> THEN [ok |-> FALSE, v |-> 0] ELSE HexInt(b.text, 0))
    ELSE [ok |-> TRUE, v |-> b.v]

\* The payloads of create_memory_hook: every hook id and process name
\* with the base address 16 as a number, one with the base address as
\* the string "10", and payloads with a missing key or a base address
\* that is no number.
CreatePayloads ==
    {[hook_id |-> <<id>>, process_name |-> <<name>>,
      base_address |-> <<IntBase(16)>>] :
        id \in HookIds, name \in ProcessNames}
    \cup {[hook_id |-> <<"h1">>, process_name |-> <<"game.exe">>,
           base_address |-> <<StrBase(<<"1", "0">>)>>],
          [hook_id |-> << >>, process_name |-> <<"game.exe">>,
           base_address |-> <<IntBase(16)>>],
          [hook_id |-> <<"h1">>, process_name |-> << >>,
           base_address |-> <<IntBase(16)>>],
          [hook_id |-> <<"h1">>, process_name |-> <<"game.exe">>,
           base_address |-> << >>],
          [hook_id |-> <<"h1">>, process_name |-> <<"game.exe">>,
           base_address |-> <<StrBase(<<"z", "z">>)>>]}

\* The payloads of the commands that name a hook: with and without the
\* key hook_id.
IdPayloads == {[hook_id |-> <<id>>] : id \in HookIds} \cup {[hook_id |-> << >>]}

\* The payloads of scan_memory: the byte 1, the number 300 that no int8
\* holds, and payloads without hook_id or without value.
ScanPayloads ==
    {[hook_id |-> <<id>>, value |-> <<IntVal(n)>>, max_results |-> 2] :
        id \in HookIds, n \in {1, 300}}
    \cup {[hook_id |-> << >>, value |-> <<IntVal(1)>>, max_results |-> 2],
          [hook_id |-> <<"h1">>, value |-> << >>, max_results |-> 2]}

\* self.hooks.get(hook_id) with a variant that gives the first hook
\* object for an id that is not in the registry.
HookOfOrFirst(hook_id) ==
    IF hooks[hook_id] = << >> THEN <<objects[1]>> ELSE <<objects[hooks[hook_id][1]]>>

\* The hook that self.hooks.get(hook_id) gives: None or the hook object.
HookOf(hook_id) ==
    IF hooks[hook_id] = << >> THEN << >> ELSE <<objects[hooks[hook_id][1]]>>

\* A handler that ends by an exception: nothing but the outcome changes.
HandlerRaises(op) ==
    /\ cmd.op = "idle"
    /\ reply' = CmdReply(op, "", Raised)
    /\ UNCHANGED <<hooks, objects, thread, system, cmd, notifications, writes,
                   hookPolled, detached, pending>>
    /\ UNCHANGED <<host, invoked>>
    /\ UNCHANGED notMain

\* A handler that only answers.
HandlerReplies(op, hook_id, r) ==
    /\ cmd.op = "idle"
    /\ reply' = CmdReply(op, hook_id, r)
    /\ UNCHANGED <<hooks, objects, thread, system, cmd, notifications, writes,
                   hookPolled, detached, pending>>
    /\ UNCHANGED <<host, invoked>>
    /\ UNCHANGED notMain

\* MemoryHookBuiltin.create_memory_hook
OnCreateMemoryHook(data, snapshotOk) ==
    IF \/ data.hook_id = << >> \/ data.process_name = << >>
       \/ data.base_address = << >>
    THEN HandlerRaises("create")
    ELSE IF ~ParseBase(data.base_address[1]).ok
    THEN HandlerRaises("create")
    ELSE CreateMemoryHook(data.hook_id[1], data.process_name[1],
                          [base_address |-> ParseBase(data.base_address[1]).v,
                           offsets |-> << >>],
                          snapshotOk)

\* MemoryHookBuiltin.scan_memory_handler
OnScanMemory(data) ==
    IF data.hook_id = << >> \/ data.value = << >>
    THEN HandlerRaises("scan")
    ELSE HandlerReplies("scan", data.hook_id[1],
                        scan_memory_handler(system, HookOf(data.hook_id[1]),
                                            data.value[1], "int8",
                                            data.max_results))

\* MemoryHookBuiltin.read_memory_value
OnReadMemoryValue(data) ==
    IF data.hook_id = << >>
    THEN HandlerRaises("read")
    ELSE HandlerReplies("read", data.hook_id[1],
                        read_memory_value(system, HookOf(data.hook_id[1])))

\* MemoryHookBuiltin.start_memory_monitoring
OnStartMemoryMonitoring(data) ==
    IF data.hook_id = << >>
    THEN HandlerRaises("start")
    ELSE StartMemoryMonitoring(data.hook_id[1])

\* MemoryHookBuiltin.stop_memory_monitoring
OnStopMemoryMonitoring(data) ==
    IF data.hook_id = << >>
    THEN HandlerRaises("stop")
    ELSE StopMemoryMonitoring(data.hook_id[1])

\* MemoryHookBuiltin.detach_memory_hook
OnDetachMemoryHook(data) ==
    IF data.hook_id = << >>
    THEN HandlerRaises("detach")
    ELSE DetachMemoryHook(data.hook_id[1])

\* What the system does during one call of list_processes: whether the
\* calls of enable_debug_privilege go through (privilegeOk), whether
\* CreateToolhelp32Snapshot gives a snapshot (snapshotOk) and whether
\* Process32First gives its first entry (firstOk).
ListEnvs == [privilegeOk : BOOLEAN, snapshotOk : BOOLEAN, firstOk : BOOLEAN]

\* enable_debug_privilege(): True, or False when a call raises.
enable_debug_privilege(env) == env.privilegeOk

\* The handle of a process snapshot.
SnapshotHandle == 99

\* list_processes without the finally clause: the snapshot stays open.
list_processes_leaves_snapshot(os, env) ==
    IF ~env.snapshotOk
    THEN [processes |-> << >>, open |-> os.open]
    ELSE [processes |-> IF env.firstOk
                        THEN [i \in 1..Len(Snapshot) |->
                                 [pid |-> Snapshot[i].pid,
                                  name |-> Snapshot[i].name]]
                        ELSE << >>,
          open |-> os.open \cup {SnapshotHandle}]

\* list_processes(): the entries returned and the handles that are open
\* when it returns.  The result of enable_debug_privilege is not used;
\* no entries are returned when the snapshot cannot be taken (-1) or
\* holds no first entry; the snapshot handle is closed on every way out
\* of the try block.
list_processes(os, env) ==
    LET privileged == enable_debug_privilege(env)
        opened == os.open \cup {SnapshotHandle}
    IN  IF ~env.snapshotOk
        THEN [processes |-> << >>, open |-> os.open]
        ELSE [processes |-> IF env.firstOk
                            THEN [i \in 1..Len(Snapshot) |->
                                     [pid |-> Snapshot[i].pid,
                                      name |-> Snapshot[i].name]]
                            ELSE << >>,
              open |-> opened \ {SnapshotHandle}]

\* MemoryHookBuiltin.list_processes_handler
OnListProcesses(env) ==
    /\ cmd.op = "idle"
    /\ reply' = CmdReply("list", "",
                         Reply(TRUE, <<list_processes(system, env).processes>>))
    /\ system' = [system EXCEPT !.open = list_processes(system, env).open]
    /\ UNCHANGED <<hooks, objects, thread, cmd, notifications, writes,
                   hookPolled, detached, pending>>
    /\ UNCHANGED <<host, invoked>>
    /\ UNCHANGED notMain

\* A registry run starts at most MaxStarts monitor threads.
MaxStarts == 1

MayStart(data) ==
    IF data.hook_id = << >> THEN TRUE
    ELSE IF HookOf(data.hook_id[1]) = << >> THEN TRUE
    ELSE IF HookOf(data.hook_id[1])[1]._running THEN TRUE
    ELSE Cardinality(Born) < MaxStarts

RegistryNext ==
    \/ \E data \in CreatePayloads, snapshotOk \in BOOLEAN :
          OnCreateMemoryHook(data, snapshotOk)
    \/ \E data \in ScanPayloads : OnScanMemory(data)
    \/ \E data \in IdPayloads : OnReadMemoryValue(data)
    \/ \E data \in IdPayloads : MayStart(data) /\ OnStartMemoryMonitoring(data)
    \/ \E data \in IdPayloads : OnStopMemoryMonitoring(data)
    \/ \E data \in IdPayloads : OnDetachMemoryHook(data)
    \/ \E env \in ListEnvs : OnListProcesses(env)
    \/ JoinEnds
    \/ JoinTimesOut
    \/ \E t \in Threads : LoopCheck(t)

\* ------------------------------------------------------------------------
\* Host runs: the handles and the life of the hosting process
\* ------------------------------------------------------------------------

\* MemoryHook.detach called on hook object o by the code that owns the
\* hook, outside detach_memory_hook.  The outcome names the object.
HookDetach(o) ==
    /\ cmd.op = "idle"
    /\ o \in Made
    /\ objects' = detach(o, objects, system).hook
    /\ system' = detach(o, objects, system).os
    /\ reply' = CmdReply("hook.detach", "", Reply(TRUE, <<o>>))
    /\ UNCHANGED <<hooks, thread, cmd, notifications, writes, hookPolled,
                   detached, pending>>
    /\ UNCHANGED <<host, invoked>>
    /\ UNCHANGED notMain

\* The answers of ShellExecuteW tried: error codes up to 32 and values
\* above it.
ShellExecuteResults == {0, 2, 5, 31, 32, 33, 42}

\* elevate() with the relaunch also taken for done at the answer 32.
elevate_from_32(admin, ret) ==
    IF admin
    THEN [requested |-> FALSE, outcome |-> "returned"]
    ELSE IF ret >= 32
    THEN [requested |-> TRUE, outcome |-> "exit"]
    ELSE [requested |-> TRUE, outcome |-> "raised"]

\* elevate(): admin is the answer of is_admin() and ret the answer of
\* ShellExecuteW(None, "runas", ...).  requested tells whether the
\* relaunch was asked for; the outcome is the return, sys.exit(0) or the
\* RuntimeError.
elevate(admin, ret) ==
    IF admin
    THEN [requested |-> FALSE, outcome |-> "returned"]
    ELSE IF ret > 32
    THEN [requested |-> TRUE, outcome |-> "exit"]
    ELSE [requested |-> TRUE, outcome |-> "raised"]

\* A call of elevate() in the hosting process.
Elevate(admin, ret) ==
    /\ cmd.op = "idle"
    /\ host = "running"
    /\ host' = IF elevate(admin, ret).outcome = "exit" THEN "exited" ELSE host
    /\ reply' = CmdReply("elevate", "",
                         IF elevate(admin, ret).outcome = "raised"
                         THEN Raised ELSE Reply(TRUE, << >>))
    /\ UNCHANGED <<hooks, objects, thread, system, cmd, notifications, writes,
                   hookPolled, detached, pending, invoked>>
    /\ UNCHANGED notMain

\* The process names of the host runs.
HostNames == {"game.exe", "system"}

\* The host runs: hooks are made, started, stopped and detached, the
\* processes are listed and elevation is asked for, as long as the
\* hosting process runs.
HostNext ==
    \/ \E id \in HookIds, name \in HostNames, target \in HookTargets,
          snapshotOk \in BOOLEAN :
            host = "running" /\ CreateMemoryHook(id, name, target, snapshotOk)
    \/ \E id \in HookIds :
          /\ host = "running"
          /\ MayStart([hook_id |-> <<id>>])
          /\ StartMemoryMonitoring(id)
    \/ \E id \in HookIds : host = "running" /\ StopMemoryMonitoring(id)
    \/ \E id \in HookIds : host = "running" /\ DetachMemoryHook(id)
    \/ \E o \in Hooks : host = "running" /\ HookDetach(o)
    \/ \E env \in ListEnvs : host = "running" /\ OnListProcesses(env)
    \/ \E admin \in BOOLEAN, ret \in ShellExecuteResults : Elevate(admin, ret)
    \/ host = "running" /\ JoinEnds
    \/ host = "running" /\ JoinTimesOut
    \/ \E t \in Threads : host = "running" /\ LoopCheck(t)

\* ------------------------------------------------------------------------
\* Event runs: Server.to_client and the list of recent events
\* ------------------------------------------------------------------------

\* The number of calls of a run, and of them those with recent=False.
MaxEvents == 102

MaxSilent == 1

\* if len(self.recent_events) > 100
RecentLimit == 100

\* to_client with a pop() that takes the newest event instead of the
\* oldest.
to_client_pops_newest(events, event, recent) ==
    IF recent
    THEN LET appended == Append(events, event)
         IN  IF Len(appended) > RecentLimit
             THEN SubSeq(appended, 1, Len(appended) - 1)
             ELSE appended
    ELSE events

\* Server.to_client: the list of recent events after the call.
\* self.recent_events.append((event_name, data)), and pop(0) when the
\* list has grown beyond the limit.
to_client(events, event, recent) ==
    IF recent
    THEN LET appended == Append(events, event)
         IN  IF Len(appended) > RecentLimit
             THEN Tail(appended)
             ELSE appended
    ELSE events

ServerInit ==
    /\ recent_events = << >>
    /\ emitted = 0
    /\ history = << >>

\* A call of to_client; the event's data is the number of the call.  The
\* event is handed to send_event whatever recent is.
ToClient(recent) ==
    /\ emitted < MaxEvents
    /\ recent \/ emitted - Len(history) < MaxSilent
    /\ LET event == [event_name |-> "memory_value_changed",
                     data |-> emitted + 1]
       IN  /\ recent_events' = to_client(recent_events, event, recent)
           /\ history' = IF recent THEN Append(history, event) ELSE history
    /\ emitted' = emitted + 1
    /\ UNCHANGED <<attrs, styleCalls, renderIn, elem, html, renderStage>>
    /\ UNCHANGED <<codecVars, resVars, scanVars, mainVars>>

EventNext == \E recent \in BOOLEAN : ToClient(recent)

\* ------------------------------------------------------------------------
\* Restart runs: start commands with intervals on hooks that may be running
\* ------------------------------------------------------------------------

\* The intervals that the start commands carry, in seconds.
Intervals == {1, 2}

RestartNext ==
    \/ \E id \in HookIds, target \in HookTargets :
          CreateMemoryHook(id, "game.exe", target, TRUE)
    \/ \E id \in HookIds, interval \in Intervals :
          StartMemoryMonitoringEvery(id, interval)
    \/ \E id \in HookIds : StopMemoryMonitoring(id)
    \/ JoinEnds
    \/ JoinTimesOut
    \/ \E t \in Threads : LoopCheck(t)

\* ------------------------------------------------------------------------
\* Specifications
\* ------------------------------------------------------------------------

\* The runs that a specification does not exercise stay at rest.
CodecIdle ==
    /\ codecIn = [hookType |-> "int32", data_type |-> "int32", value |-> IntVal(0)]
    /\ codecStage = "idle"
    /\ codecBytes = NoBytes
    /\ codecOut = BytesVal(<< >>)

ResIdle ==
    /\ resIn = [hook |-> [process_handle |-> << >>, base_address |-> << >>,
                          _offsets |-> << >>, _data_type |-> "int32"],
                os |-> [open |-> {}, cells |-> << >>, partial |-> FALSE]]
    /\ resStage = "idle"
    /\ resAddr = NoAddress
    /\ resReply = Reply(FALSE, << >>)

MainIdle ==
    /\ hooks = [id \in HookIds |-> << >>]
    /\ objects = [o \in Hooks |-> NewHook("")]
    /\ thread = [t \in Threads |-> NoThread]
    /\ system = [open |-> {}, cells |-> << >>, partial |-> FALSE]
    /\ cmd = CmdIdle
    /\ reply = CmdReply("none", "", Reply(FALSE, << >>))
    /\ notifications = << >>
    /\ writes = 0
    /\ hookPolled = [o \in Hooks |-> << >>]
    /\ detached = {}
    /\ pending = << >>
    /\ host = "running"
    /\ invoked = << >>

AttrIdle ==
    /\ attrs = << >>
    /\ styleCalls = <<[method |-> "none", value |-> << >>]>>

RenderIdle ==
    /\ renderIn = [tag |-> "", content |-> NoContent, attrs |-> NoAttrs]
    /\ elem = NoElement
    /\ html = << >>
    /\ renderStage = "idle"

ServerIdle ==
    /\ recent_events = << >>
    /\ emitted = 0
    /\ history = << >>

ScanIdle ==
    /\ scanIn = [layout |-> << >>,
                 hook |-> [process_handle |-> << >>, base_address |-> << >>,
                           _offsets |-> << >>, _data_type |-> "int32"],
                 value |-> IntVal(0), data_type |-> "int32", max_results |-> 0]
    /\ scanPc = "idle"
    /\ current_addr = 0
    /\ addresses = << >>
    /\ scanReads = << >>
    /\ scanReply = Reply(FALSE, << >>)

CodecSpecInit == CodecInit /\ ResIdle /\ ScanIdle /\ MainIdle /\ AttrIdle /\ RenderIdle /\ ServerIdle

CodecSpec == CodecSpecInit /\ [][CodecNext]_vars

ResSpecInit == ResInit /\ CodecIdle /\ ScanIdle /\ MainIdle /\ AttrIdle /\ RenderIdle /\ ServerIdle

ResSpec == ResSpecInit /\ [][ResNext]_vars

ScanSpecInit == ScanInit /\ CodecIdle /\ ResIdle /\ MainIdle /\ AttrIdle /\ RenderIdle /\ ServerIdle

ScanSpec == ScanSpecInit /\ [][ScanNext]_vars

WalkSpecInit == WalkInit /\ CodecIdle /\ ResIdle /\ MainIdle /\ AttrIdle /\ RenderIdle /\ ServerIdle

WalkSpec == WalkSpecInit /\ [][WalkNext]_vars

Init == MainInit /\ CodecIdle /\ ResIdle /\ ScanIdle /\ AttrIdle /\ RenderIdle /\ ServerIdle

Spec == Init /\ [][Next]_vars

\* The registry runs: every command with every payload over a target
\* that does not change; the monitor threads get as far as their flag
\* test.
RegistrySpec == Init /\ [][RegistryNext]_vars

RelocSpecInit ==
    RelocInit /\ CodecIdle /\ ScanIdle /\ MainIdle /\ AttrIdle /\ RenderIdle /\ ServerIdle

RelocSpec == RelocSpecInit /\ [][RelocNext]_vars

PollSpec == Init /\ [][PollNext]_vars

RestartSpec == Init /\ [][RestartNext]_vars

EventSpecInit ==
    ServerInit /\ AttrIdle /\ RenderIdle /\ CodecIdle /\ ResIdle /\ ScanIdle /\ MainIdle

EventSpec == EventSpecInit /\ [][EventNext]_vars

HostSpec == Init /\ [][HostNext]_vars

NotifySpec == Init /\ [][NotifyNext]_vars

AttrSpecInit ==
    AttrInit /\ RenderIdle /\ CodecIdle /\ ResIdle /\ ScanIdle /\ MainIdle /\ ServerIdle

AttrSpec == AttrSpecInit /\ [][AttrNext]_vars

RenderSpecInit ==
    RenderInit /\ AttrIdle /\ CodecIdle /\ ResIdle /\ ScanIdle /\ MainIdle /\ ServerIdle

RenderSpec == RenderSpecInit /\ [][RenderNext]_vars

\* The monitor threads are scheduled fairly: a thread that can take a
\* step eventually takes one.
FairSpec == Init /\ [][Next]_vars /\ \A t \in Threads : WF_vars(LoopStep(t))

\* C10: for every integer tag t and every v in t's range, decoding with t
\* the bytes the scanner's encoder produces for (v, t) gives back v.
RoundTripIntegerTags ==
    codecStage = "decoded" => codecOut = codecIn.value

\* C8: resolution with an empty offsets sequence returns the base address
\* unchanged and reads no memory, for every base address including 0.
EmptyOffsetsReturnBase ==
    (resStage /= "start" /\ resStage /= "idle" /\ resIn.hook._offsets = << >>)
        => /\ resAddr.ok
           /\ resAddr.address = resIn.hook.base_address[1]
           /\ resAddr.reads = << >>

\* The 8-byte pointer read at address a of the resolution under test
\* fails or copies fewer than 8 bytes.
PointerReadFails(a) ==
    \/ ~Truthy(resIn.hook.process_handle)
    \/ LET r == ReadProcessMemory(resIn.os, resIn.hook.process_handle[1], a, 8)
       IN  ~r.success \/ r.bytes_read < 8

\* C9: when an intermediate pointer read fails or is short, resolution
\* yields no address, read_memory_value replies success false, and no
\* exception leaves the handler.
FailedPointerReadIsReadFailure ==
    /\ (resStage \in {"resolved", "replied"}
         /\ \E k \in 1..Len(resAddr.reads) : PointerReadFails(resAddr.reads[k]))
            => (~resAddr.ok /\ resAddr.address = 0)
    /\ (resStage = "replied" /\ ~resAddr.ok)
            => (~resReply.raised /\ ~resReply.success /\ resReply.value = << >>)

\* C9 witness: a resolution whose second pointer read was short (4 of 8
\* bytes copied) has been answered by read_memory_value.
FailedPointerReadWitness ==
    /\ resStage = "replied"
    /\ Len(resAddr.reads) = 2
    /\ ~resAddr.ok
    /\ resIn.os.partial
    /\ ReadProcessMemory(resIn.os, resIn.hook.process_handle[1],
                         resAddr.reads[2], 8).bytes_read = 4
    /\ ~resReply.success

\* The region of the scan run's layout that holds address a.
RegionOf(a) ==
    CHOOSE i \in 1..Len(scanIn.layout) :
        /\ RegionBase(scanIn.layout, i) <= a
        /\ a < RegionBase(scanIn.layout, i) + scanIn.layout[i].size

HasFlag(protect, flag) == (protect \div flag) % 2 = 1

\* C5: scan_memory returns at most max_results addresses, strictly
\* increasing.
ScanCappedAndIncreasing ==
    /\ Len(addresses) <= scanIn.max_results
    /\ \A i \in 1..(Len(addresses) - 1) : addresses[i] < addresses[i + 1]
    /\ (scanPc = "done" /\ scanReply.success) => scanReply.value = <<addresses>>

\* C5 witness: a finished scan of one region that holds the pattern at
\* 10, 4094 and 5000, stopped by the cap of two after 10 and 4094.
ScanCappedWitness ==
    /\ scanPc = "done"
    /\ scanReply.success
    /\ scanIn.data_type = "int8"
    /\ Len(scanIn.layout) = 1
    /\ scanIn.layout[1].plants = {10, 4094, 5000}
    /\ scanIn.max_results = 2
    /\ addresses = <<10, 4094>>

\* The pattern occurs at offset q of region i, wholly inside one chunk
\* that can be read.
OccursInChunk(i, q) ==
    LET n == Len(ScanPattern.bytes)
        base == RegionBase(scanIn.layout, i)
        cells == ScanOs(scanIn.layout).cells
    IN  /\ q + n <= scanIn.layout[i].size
        /\ q \div chunk_size = (q + n - 1) \div chunk_size
        /\ \A k \in 1..n : /\ base + q + k - 1 \in DOMAIN cells
                            /\ cells[base + q + k - 1] = ScanPattern.bytes[k]

\* C6: a finished scan that did not reach max_results reports every
\* occurrence of the pattern inside one chunk of a committed region that
\* is readable (no no-access, guard or execute-only protection), a
\* readable and writable one included.
ScanFindsEveryOccurrence ==
    (scanPc = "done" /\ scanReply.success /\ Len(addresses) < scanIn.max_results)
        => \A i \in 1..Len(scanIn.layout) :
             (/\ scanIn.layout[i].state = MEM_COMMIT
              /\ ~HasFlag(scanIn.layout[i].protect, Win.PAGE_NOACCESS)
              /\ ~HasFlag(scanIn.layout[i].protect, Win.PAGE_GUARD)
              /\ ~HasFlag(scanIn.layout[i].protect, Win.PAGE_EXECUTE))
                => \A q \in scanIn.layout[i].plants :
                     OccursInChunk(i, q)
                        => \E j \in 1..Len(addresses) :
                             addresses[j] = RegionBase(scanIn.layout, i) + q

\* C7: scan_memory reads bytes of a region only when the region is
\* committed and its protection carries neither the no-access nor the
\* guard flag; any other region contributes no address, without error.
ScanReadsOnlyAccessibleRegions ==
    /\ \A k \in 1..Len(scanReads) :
          LET r == scanIn.layout[RegionOf(scanReads[k])]
          IN  /\ r.state = MEM_COMMIT
              /\ ~HasFlag(r.protect, Win.PAGE_NOACCESS)
              /\ ~HasFlag(r.protect, Win.PAGE_GUARD)
    /\ \A j \in 1..Len(addresses) :
          LET r == scanIn.layout[RegionOf(addresses[j])]
          IN  /\ r.state = MEM_COMMIT
              /\ ~HasFlag(r.protect, Win.PAGE_NOACCESS)
              /\ ~HasFlag(r.protect, Win.PAGE_GUARD)
    /\ scanPc = "done" => scanReply.success

\* A step in which thread t completes a successful read of value v.
PollReads(t, v) ==
    /\ thread[t].pc = "read"
    /\ thread'[t].pc \in {"notify", "wait"}
    /\ thread'[t].current_value = <<v>>

\* The events grow by exactly the event e, or stay as they are.
Emits(e) == notifications' = Append(notifications, e)

\* Every event is sent by the callback step of a poll that announced it,
\* carries that loop's hook_id and the value read, and is sent once.
OneEventPerAnnouncedPoll ==
    /\ \A t \in Threads :
          (thread[t].pc = "notify" /\ thread'[t].pc /= "notify")
             => Emits([hook_id |-> thread[t].hook_id,
                       value |-> thread[t].current_value[1], thread |-> t])
    /\ (\A t \in Threads : thread[t].pc = "notify" => thread'[t].pc = "notify")
          => notifications' = notifications
    /\ \A t \in Threads :
          (Alive(t) /\ objects[thread[t].obj]._running)
             => \E id \in HookIds : thread[t].hook_id = id

\* C1: a poll announces an event exactly when the value it read
\* differs from the value of the previous successful poll of that hook,
\* and each announced event is sent exactly once with hook_id and value.
NotifyOnChangeSinceLastPollOfHook ==
    [][/\ OneEventPerAnnouncedPoll
       /\ \A t \in Threads : \A v \in {IntVal(n) : n \in {1} \cup TargetValues} :
             PollReads(t, v)
                => (thread'[t].pc = "notify"
                        <=> <<v>> /= hookPolled[thread[t].obj])]_vars

\* C2: once detach_memory_hook has returned for a hook, no event of that
\* hook is sent any more; detaching an id that is not in the registry
\* replies success and changes nothing.
NoEventAfterDetach ==
    [][/\ \A i \in (Len(notifications) + 1)..Len(notifications') :
             thread[notifications'[i].thread].obj \notin detached
       /\ \A id \in HookIds :
             (DetachMemoryHook(id) /\ hooks[id] = << >>)
                => /\ reply'.result.success
                   /\ UNCHANGED <<hooks, objects, thread, system, cmd,
                                  notifications>>]_vars

\* C3: at most one polling loop is alive for a hook.
OneLoopPerHook ==
    \A o \in Hooks : Cardinality(LoopsOf(o)) <= 1

\* C4: a loop that is alive when stop_monitoring clears the running flag
\* of its hook eventually exits.
StoppedLoopExits ==
    \A t \in Threads :
        (Alive(t) /\ ~objects[thread[t].obj]._running) ~> (thread[t].pc = "done")

\* C16: detach_memory_hook releases the handle of a hook only when no
\* polling loop of that hook is alive, and no loop polls a hook whose
\* handle detach_memory_hook has released.
HandleReleasedAfterLoopStopped ==
    [][/\ \A o \in Hooks :
             (o \notin detached /\ o \in detached') => LoopsOf(o) = {}
       /\ \A t \in Threads :
             (thread[t].pc = "read" /\ thread'[t].pc /= "read")
                => thread[t].obj \notin detached]_vars

\* The poll that thread t is about to make fails.
PollWillFail(t) ==
    /\ thread[t].pc = "read"
    /\ ~read_value(system, objects[thread[t].obj]).ok

\* C17: a failing poll leaves the loop alive and asleep and sends nothing;
\* a loop ends only at its flag test with the running flag cleared; and
\* a poll that succeeds after failing polls with a value other than the
\* last one announced announces it.
FailedPollKeepsLooping ==
    [][\A t \in Threads :
          /\ (PollWillFail(t) /\ thread'[t] /= thread[t])
                => /\ thread'[t].pc = "wait"
                   /\ thread'[t].last_value = thread[t].last_value
                   /\ notifications' = notifications
          /\ (Alive(t) /\ thread'[t].pc = "done")
                => (thread[t].pc = "wait" /\ ~objects[thread[t].obj]._running)
          /\ (thread[t].pc = "read" /\ thread[t].failed > 0
                /\ ~PollWillFail(t) /\ thread'[t] /= thread[t]
                /\ <<read_value(system, objects[thread[t].obj]).value>>
                       /= thread[t].last_value)
                => /\ thread'[t].pc = "notify"
                   /\ thread'[t].current_value
                         = <<read_value(system, objects[thread[t].obj]).value>>]_vars

\* C17 witness: a loop that has sent an event is, after MaxFailed failing
\* polls in a row, about to send the changed value that its next poll
\* read.
FailedPollWitness ==
    \E t \in Threads :
        /\ thread[t].pc = "notify"
        /\ thread[t].failed = MaxFailed
        /\ \E i \in 1..Len(notifications) :
              /\ notifications[i].thread = t
              /\ <<notifications[i].value>> /= thread[t].current_value

\* C19: the events of one hook are sent in the order of the polls that
\* announced them.
DeliveredInPollOrder ==
    [][\A t \in Threads :
          (thread[t].pc = "notify" /\ thread'[t].pc /= "notify")
             => \A i, j \in 1..Len(pending) :
                   (pending[j] = t /\ i < j)
                      => thread[pending[i]].obj /= thread[t].obj]_vars

\* The payload data holds every key that create_memory_hook reads and a
\* base address that is a number.
WellFormed(data) ==
    /\ data.hook_id /= << >>
    /\ data.process_name /= << >>
    /\ data.base_address /= << >>
    /\ ParseBase(data.base_address[1]).ok

\* The snapshot entries whose name is name, compared without case.
Matching(name) ==
    {i \in 1..Len(Snapshot) : Lower(Snapshot[i].name) = Lower(name)}

\* C11: when the named process exists but cannot be opened,
\* create_memory_hook replies success false and stores no hook under the
\* hook_id.
OpenDeniedStoresNoHook ==
    [][\A data \in CreatePayloads :
          (/\ reply'.op = "create"
           /\ WellFormed(data)
           /\ reply'.hook_id = data.hook_id[1]
           /\ reply'.process_name = data.process_name[1]
           /\ Matching(data.process_name[1]) /= {}
           /\ \A i \in Matching(data.process_name[1]) : ~Snapshot[i].openable
           /\ OnCreateMemoryHook(data, TRUE))
             => /\ ~reply'.result.raised
                /\ ~reply'.result.success
                /\ hooks' = hooks]_vars

CreateReplacesEntry ==
    [][\A data \in CreatePayloads :
          (/\ reply'.op = "create"
           /\ WellFormed(data)
           /\ reply'.hook_id = data.hook_id[1]
           /\ reply'.process_name = data.process_name[1]
           /\ hooks[data.hook_id[1]] /= << >>
           /\ reply'.result.success
           /\ OnCreateMemoryHook(data, TRUE))
             => LET old == hooks[data.hook_id[1]][1]
                IN  /\ hooks'[data.hook_id[1]] /= << >>
                    /\ hooks'[data.hook_id[1]] /= hooks[data.hook_id[1]]
                    /\ objects'[hooks'[data.hook_id[1]][1]].process_name
                          = data.process_name[1]
                    /\ \A id \in HookIds \ {data.hook_id[1]} :
                          hooks'[id] = hooks[id]
                    /\ objects'[old] = objects[old]
                    /\ system.open \subseteq system'.open]_vars

\* C13 witness: the second hook object is in the registry in the place of
\* the first, whose handle is still open.
CreateReplacesWitness ==
    /\ reply.op = "create"
    /\ reply.hook_id \in HookIds
    /\ reply.result.success
    /\ hooks[reply.hook_id] = <<2>>
    /\ \A id \in HookIds : hooks[id] /= <<1>>
    /\ 1 \notin detached
    /\ Truthy(objects[1].process_handle)
    /\ objects[1].process_handle[1] \in system.open

\* C14: for a hook_id that is not in the registry scan_memory,
\* read_memory_value and start_memory_monitoring reply success false,
\* start no loop and leave the registry as it was.
UnknownHookIsNotFound ==
    [][/\ \A data \in ScanPayloads :
             (/\ data.hook_id /= << >> /\ data.value /= << >>
              /\ hooks[data.hook_id[1]] = << >>
              /\ reply'.op = "scan"
              /\ OnScanMemory(data))
                => /\ ~reply'.result.raised /\ ~reply'.result.success
                   /\ UNCHANGED <<hooks, objects, thread>>
       /\ \A data \in IdPayloads :
             (/\ data.hook_id /= << >>
              /\ hooks[data.hook_id[1]] = << >>
              /\ reply'.op = "read"
              /\ OnReadMemoryValue(data))
                => /\ ~reply'.result.raised /\ ~reply'.result.success
                   /\ UNCHANGED <<hooks, objects, thread>>
       /\ \A data \in IdPayloads :
             (/\ data.hook_id /= << >>
              /\ hooks[data.hook_id[1]] = << >>
              /\ reply'.op = "start"
              /\ OnStartMemoryMonitoring(data))
                => /\ ~reply'.result.raised /\ ~reply'.result.success
                   /\ UNCHANGED <<hooks, objects, thread>>]_vars

\* C14 witness: read_memory_value has been answered for a hook_id that is
\* not in the registry while a hook with an open handle is.
UnknownHookWitness ==
    /\ reply.op = "read"
    /\ reply.hook_id \in HookIds
    /\ hooks[reply.hook_id] = << >>
    /\ ~reply.result.success
    /\ \E id \in HookIds :
          /\ hooks[id] /= << >>
          /\ Truthy(objects[hooks[id][1]].process_handle)

\* C15: for a hook_id that is not in the registry stop_memory_monitoring
\* and detach_memory_hook reply success true and change neither the
\* registry nor any hook.
UnknownHookStopsNothing ==
    [][\A data \in IdPayloads :
          (/\ data.hook_id /= << >>
           /\ hooks[data.hook_id[1]] = << >>
           /\ reply'.op \in {"stop", "detach"}
           /\ OnStopMemoryMonitoring(data) \/ OnDetachMemoryHook(data))
             => /\ ~reply'.result.raised /\ reply'.result.success
                /\ UNCHANGED <<hooks, objects, thread, system, cmd,
                               detached>>]_vars

\* C15 witness: detach_memory_hook has been answered for a hook_id that
\* was not in the registry while another hook is monitoring.
UnknownHookStopWitness ==
    /\ reply.op = "detach"
    /\ reply.hook_id \in HookIds
    /\ reply.result.success
    /\ detached = {}
    /\ \E id \in HookIds \ {reply.hook_id} :
          /\ hooks[id] /= << >>
          /\ objects[hooks[id][1]]._running

\* C18: no command ends by an exception that leaves its handler.
NoHandlerRaises == ~reply.result.raised

\* C20: a polling loop is started only on a hook that holds a handle
\* that is not null.
LoopStartsOnAttachedHook ==
    [][\A t \in Threads :
          (thread[t].pc = "unborn" /\ thread'[t].pc /= "unborn")
             => Truthy(objects[thread'[t].obj].process_handle)]_vars

\* The step is the return of a stop_memory_monitoring command for hook
\* object o.
StopReturns(o) ==
    /\ cmd'.op = "idle"
    /\ reply'.op = "stop"
    /\ IF cmd.op = "idle"
       THEN /\ reply' /= reply
            /\ reply'.hook_id \in HookIds
            /\ hooks[reply'.hook_id] = <<o>>
       ELSE cmd.op = "stop" /\ cmd.obj = o

\* C21: stop_monitoring on a hook that is not running changes nothing and
\* raises nothing; a hook that is not running holds no loop reference;
\* and when stop_monitoring returns the hook is not running and holds no
\* loop reference, so that a second call finds the hook as the first
\* left it.
StopIsIdempotent ==
    [][/\ \A id \in HookIds :
             (/\ reply'.op = "stop"
              /\ reply'.hook_id = id
              /\ cmd.op = "idle"
              /\ IF hooks[id] = << >> THEN FALSE
                 ELSE ~objects[hooks[id][1]]._running
              /\ StopMemoryMonitoring(id))
                => /\ ~reply'.result.raised
                   /\ reply'.result.success
                   /\ UNCHANGED <<hooks, objects, thread, system, cmd,
                                  notifications, detached>>
       /\ \A o \in Hooks :
             (cmd.op = "idle" /\ ~objects[o]._running)
                => objects[o]._thread = << >>
       /\ \A o \in Hooks :
             StopReturns(o)
                => /\ ~objects'[o]._running
                   /\ objects'[o]._thread = << >>]_vars

\* C21 witness: stop_memory_monitoring has returned for a hook whose loop
\* is still alive; the hook is not running and holds no loop reference,
\* the state in which a second stop is taken.
StopIsIdempotentWitness ==
    /\ reply.op = "stop"
    /\ cmd.op = "idle"
    /\ reply.hook_id \in HookIds
    /\ hooks[reply.hook_id] /= << >>
    /\ ~objects[hooks[reply.hook_id][1]]._running
    /\ objects[hooks[reply.hook_id][1]]._thread = << >>
    /\ LoopsOf(hooks[reply.hook_id][1]) /= {}

\* The handles that the hook objects hold.
HeldHandles(hk) ==
    {hk[o].process_handle[1] : o \in {x \in Hooks : Truthy(hk[x].process_handle)}}

\* C22: a handle that a hook holds is open and held by that hook alone;
\* a handle is closed only by the hook that holds it, which forgets it in
\* the same call; a released handle does not come back; and detach on a
\* hook that holds no handle changes nothing.
HandleClosedOnce ==
    [][/\ HeldHandles(objects) \subseteq system.open
       /\ \A o1, o2 \in Hooks :
             (o1 /= o2 /\ Truthy(objects[o1].process_handle))
                => objects[o1].process_handle /= objects[o2].process_handle
       /\ \A h \in system.open \ system'.open :
             \E o \in Hooks : /\ objects[o].process_handle = <<h>>
                              /\ objects'[o].process_handle = << >>
       /\ \A o \in Made :
             ~Truthy(objects[o].process_handle)
                => objects'[o].process_handle = objects[o].process_handle
       /\ \A o \in Made :
             (/\ reply'.op = "hook.detach"
              /\ ~Truthy(objects[o].process_handle)
              /\ HookDetach(o))
                => UNCHANGED <<hooks, objects, thread, system, cmd, detached>>]_vars

\* C22 witness: detach has been called on a hook object whose handle
\* detach_memory_hook had released before.
HandleClosedOnceWitness ==
    /\ reply.op = "hook.detach"
    /\ reply.result.value /= << >>
    /\ reply.result.value[1] \in detached
    /\ objects[reply.result.value[1]].process_name = "game.exe"
    /\ objects[reply.result.value[1]].process_handle = << >>
    /\ HandleOf(reply.result.value[1]) \notin system.open

\* C23: list_processes answers with no entries, and no error, when the
\* snapshot cannot be taken; it answers with the entries of the snapshot
\* whether or not the debug privilege could be raised; and no snapshot
\* handle is open when it has returned.
ListingIsBestEffort ==
    [][/\ SnapshotHandle \notin system.open
       /\ \A env \in ListEnvs :
             (reply'.op = "list" /\ OnListProcesses(env))
                => /\ ~reply'.result.raised
                   /\ reply'.result.success
                   /\ ~env.snapshotOk => reply'.result.value = << << >> >>
                   /\ (env.snapshotOk /\ env.firstOk)
                         => /\ Len(reply'.result.value[1]) = Len(Snapshot)
                            /\ \A i \in 1..Len(Snapshot) :
                                  /\ reply'.result.value[1][i].pid = Snapshot[i].pid
                                  /\ reply'.result.value[1][i].name = Snapshot[i].name
                   /\ system'.open = system.open]_vars

\* C23 witness: list_processes has answered with the entries of a
\* snapshot while a hook holds an open handle.
ListingWitness ==
    /\ reply.op = "list"
    /\ reply.result.success
    /\ reply.result.value /= << >>
    /\ Len(reply.result.value[1]) = Len(Snapshot)
    /\ HeldHandles(objects) /= {}
    /\ system.open = HeldHandles(objects)

\* C24: elevate changes nothing when the process is elevated; otherwise
\* it asks for the relaunch, ends the process when ShellExecuteW answers
\* with a value above 32 and raises without ending the process when the
\* answer is an error code; nothing else ends the hosting process.
OnlyElevationEndsHost ==
    [][/\ \A admin \in BOOLEAN, ret \in ShellExecuteResults :
             (reply'.op = "elevate" /\ Elevate(admin, ret))
                => /\ elevate(admin, ret).requested = ~admin
                   /\ admin => (host' = "running" /\ ~reply'.result.raised)
                   /\ (~admin /\ ret \in {33, 42}) => host' = "exited"
                   /\ (~admin /\ ret \in {0, 2, 5, 31, 32})
                         => (host' = "running" /\ reply'.result.raised)
       /\ host' /= host
             => /\ host = "running"
                /\ reply'.op = "elevate"
                /\ \E ret \in {33, 42} : Elevate(FALSE, ret)]_vars

\* C24 witness: the hosting process has exited by an elevation while a
\* hook was monitoring.
OnlyElevationEndsHostWitness ==
    /\ host = "exited"
    /\ reply.op = "elevate"
    /\ \E o \in Made : objects[o]._running /\ LoopsOf(o) /= {}

\* The CSS declaration that a style call has to add, from the arguments
\* of the call.
Declaration(call) ==
    CASE call.method = "bg" -> <<"background: ">> \o call.value[1]
      [] call.method = "fg" -> <<"color: ">> \o call.value[1]
      [] call.method = "font" -> <<"font-family: ">> \o call.value[1]
      [] call.method = "font_size" ->
            <<"font-size: ">>
               \o (IF call.value[1] = 14 THEN <<"1", "4">> ELSE <<"9">>)
               \o <<"px">>
      [] call.method = "border" ->
            <<"border: ", "2px", " ", "solid", " ", "#FF0000">>
      [] OTHER -> <<"display: flex">>

\* text holds the texts of decls one after the other, not necessarily
\* side by side, from position from on.
RECURSIVE ContainsInOrder(_, _, _)
ContainsInOrder(text, decls, from) ==
    IF decls = << >> THEN TRUE
    ELSE LET d == Head(decls)
             at == {q \in from..(Len(text) - Len(d) + 1) :
                       SubSeq(text, q, q + Len(d) - 1) = d}
         IN  IF at = {} THEN FALSE
             ELSE ContainsInOrder(text, Tail(decls), Min(at) + Len(d))

\* C25: after any sequence of style calls the 'style' attribute holds the
\* declaration of each call, in call order; a flex("center") call also
\* leaves its two centring declarations.
StyleKeepsEveryDeclaration ==
    (styleCalls /= << >> /\ styleCalls[1].method /= "none")
        => /\ HasKey(attrs, "style")
           /\ ContainsInOrder(GetItem(attrs, "style"),
                              [i \in 1..Len(styleCalls) |->
                                  Declaration(styleCalls[i])], 1)
           /\ \A i \in 1..Len(styleCalls) :
                 (styleCalls[i].method = "flex"
                     /\ styleCalls[i].value = <<<<"center">>>>)
                    => \E q \in 1..(Len(GetItem(attrs, "style")) - 2) :
                          SubSeq(GetItem(attrs, "style"), q, q + 2)
                             = <<"justify-content: center", "; ",
                                 "align-items: center">>

\* C25 witness: bg, font_size(14) and flex("center") have been called in
\* this order on one Attributes, with a mime call among them.
StyleKeepsWitness ==
    /\ Len(styleCalls) = 3
    /\ styleCalls[1].method = "bg"
    /\ styleCalls[2].method = "font_size"
    /\ styleCalls[2].value = <<14>>
    /\ styleCalls[3].method = "flex"
    /\ styleCalls[3].value = <<<<"center">>>>
    /\ HasKey(attrs, "type")
    /\ GetItem(attrs, "style")
          = <<"background: ", "#000000", "; ", "font-size: ", "1", "4", "px",
              "; ", "display: flex", "; ", "justify-content: center", "; ",
              "align-items: center", "; ">>

\* What child c of a list content contributes to the render of its
\* parent: its own render when it is an Element, its string otherwise.
ChildText(c) == IF c.node = "element" THEN render(c) ELSE str(c)

\* The length of the first n of the texts.
RECURSIVE LenOfFirst(_, _)
LenOfFirst(texts, n) ==
    IF n = 0 THEN 0 ELSE LenOfFirst(texts, n - 1) + Len(texts[n])

\* C26: the render of an element with a list content is its open tag,
\* then what its children contribute, in list order, then its close tag.
RenderIsTagChildrenTag ==
    (renderStage = "rendered" /\ elem.content.kind = "list")
        => LET open == <<"<", elem.tag, " ">> \o attr_str(elem.attrs) \o <<">">>
               close == <<"</", elem.tag, ">">>
               texts == [i \in 1..Len(elem.content.items) |->
                            ChildText(elem.content.items[i])]
               n == Len(texts)
           IN  /\ Len(html) = Len(open) + LenOfFirst(texts, n) + Len(close)
               /\ SubSeq(html, 1, Len(open)) = open
               /\ \A i \in 1..n :
                     SubSeq(html, Len(open) + LenOfFirst(texts, i - 1) + 1,
                            Len(open) + LenOfFirst(texts, i)) = texts[i]
               /\ SubSeq(html, Len(html) - Len(close) + 1, Len(html)) = close

\* C26 witness: Element('div', [Element('span', 'Hello'), ' World'])
\* has been rendered as '<div ><span >Hello</span> World</div>'.
RenderWitness ==
    /\ renderStage = "rendered"
    /\ renderIn.attrs = NoAttrs
    /\ renderIn.content
          = ListContent(<<Element("span", StrContent(<<"Hello">>), NoAttrs),
                          StrNode(<<" World">>)>>)
    /\ html = <<"<", "div", " ", ">", "<", "span", " ", ">", "Hello",
                "</", "span", ">", " World", "</", "div", ">">>

\* C27: when a loop calls the subscribers for a value, the callback of
\* start_monitoring and every added callback of the hook are called with
\* the value.
EverySubscriberInvoked ==
    [][\A t \in Threads :
          (thread[t].pc = "notify" /\ thread'[t].pc /= "notify")
             => invoked'
                   = invoked
                       \o [k \in 1..Len(Subscribers(thread[t].obj)) |->
                             [subscriber |-> Subscribers(thread[t].obj)[k],
                              value |-> thread[t].current_value[1],
                              thread |-> t]]]_vars

\* Loop t was running when stop_monitoring cleared the flag of its hook:
\* the stop is at its join, or has returned and the hook no longer refers
\* to the thread.
Cancelled(t) ==
    /\ Alive(t)
    /\ \/ cmd.op /= "idle" /\ cmd.obj = thread[t].obj
       \/ objects[thread[t].obj]._thread /= <<t>>

\* C28: a loop that was running when stop_monitoring cleared the flag
\* exits at its next test of the flag, so that it makes at most the poll
\* in flight after the stop.
CancelledLoopExitsAtNextCheck ==
    [][\A t \in Threads :
          (Cancelled(t) /\ thread[t].pc = "wait" /\ thread'[t].pc /= "wait")
             => thread'[t].pc = "done"]_vars

\* The offset of address a in its region.
OffsetInRegion(a) == a - RegionBase(scanIn.layout, RegionOf(a))

\* The pattern occurs at offset q of region i, in bytes that can be
\* copied.
OccursAt(i, q) ==
    LET base == RegionBase(scanIn.layout, i)
        cells == ScanOs(scanIn.layout).cells
    IN  \A k \in 1..Len(ScanPattern.bytes) :
           /\ base + q + k - 1 \in DOMAIN cells
           /\ cells[base + q + k - 1] = ScanPattern.bytes[k]

\* C29: the bytes of every reported occurrence lie in one 4096-byte
\* chunk of its region; an occurrence that starts in one chunk and ends
\* in the next is not reported.
MatchesLieInOneChunk ==
    ScanPattern.ok
       => \A j \in 1..Len(addresses) :
             OffsetInRegion(addresses[j]) \div chunk_size
                = (OffsetInRegion(addresses[j]) + Len(ScanPattern.bytes) - 1)
                     \div chunk_size

\* C29 witness: a finished scan for a four-byte pattern of one region
\* that holds it at 10, across the chunk boundary at 4094, and at 5000:
\* with room for two addresses it reports 10 and 5000.
MatchesLieInOneChunkWitness ==
    /\ scanPc = "done"
    /\ scanReply.success
    /\ Len(scanIn.layout) = 1
    /\ scanIn.layout[1].plants = {10, 4094, 5000}
    /\ scanIn.max_results = 2
    /\ Len(ScanPattern.bytes) = 4
    /\ OccursAt(1, 4094)
    /\ scanReads = <<0, 4096>>
    /\ addresses = <<10, 5000>>

\* Region i of the layout passes the check that scan_memory makes before
\* it reads a region.
ScansRegion(i) ==
    RegionIsScanned([State |-> scanIn.layout[i].state,
                     Protect |-> scanIn.layout[i].protect])

\* The chunks of region i.
ChunksOf(i) == 0..(scanIn.layout[i].size \div chunk_size - 1)

\* The read of chunk c of region i fails or is short.
ChunkIsSkipped(i, c) ==
    c \in scanIn.layout[i].holes \cup scanIn.layout[i].short

\* The addresses of the occurrences of the pattern inside one chunk whose
\* read succeeds, over the regions that are scanned.
Searchable ==
    UNION {{RegionBase(scanIn.layout, i) + q :
               q \in {q \in scanIn.layout[i].plants :
                         /\ ScansRegion(i)
                         /\ ~ChunkIsSkipped(i, q \div chunk_size)
                         /\ OccursInChunk(i, q)}} :
           i \in 1..Len(scanIn.layout)}

\* C30: a chunk whose read fails or is short is skipped and the scan goes
\* on: a finished scan reports the occurrences of the chunks that could
\* be read, before and after a skipped chunk, in address order up to
\* max_results, and a scan below max_results has read at every chunk of
\* every scanned region.
SkippedChunkDoesNotEndScan ==
    (scanPc = "done" /\ scanReply.success)
       => /\ addresses = Ascending(Searchable, scanIn.max_results)
          /\ Len(addresses) < scanIn.max_results
                => \A i \in 1..Len(scanIn.layout) :
                      ScansRegion(i)
                         => \A c \in ChunksOf(i) :
                               \E k \in 1..Len(scanReads) :
                                  scanReads[k] = RegionBase(scanIn.layout, i)
                                                    + c * chunk_size

\* C30 witness: a finished scan of two regions, the first with a match in
\* chunk 0 and a chunk 1 whose read fails, the second with a chunk 0
\* whose read is short and a match in chunk 1: all four chunks are read
\* at and both matches reported.
SkippedChunkWitness ==
    /\ scanPc = "done"
    /\ scanReply.success
    /\ Len(scanIn.layout) = 2
    /\ scanIn.layout[1].holes = {1}
    /\ scanIn.layout[2].short = {0}
    /\ ScanOs(scanIn.layout).partial
    /\ scanIn.data_type = "int8"
    /\ scanIn.max_results = 2
    /\ scanReads = <<0, 4096, 8192, 12288>>
    /\ addresses = <<10, 13192>>

ptr64(x) == FromBytesUnsigned([k \in 1..8 |-> resIn.os.cells[x + k - 1]])

\* The addresses a0 .. an of the fold a0 = base, a(i) = ptr64(a(i-1)) + o(i)
\* over the offsets offs, from a on.
RECURSIVE FoldAddresses(_, _)
FoldAddresses(a, offs) ==
    IF offs = << >> THEN <<a>>
    ELSE <<a>> \o FoldAddresses(ptr64(a) + Head(offs), Tail(offs))

\* C32: a resolution over the offsets o1..on, n > 0, that yields an
\* address has made the n pointer reads of the fold in order and yields
\* the fold's last address, which is a valid address (not negative; the
\* pointers of the runs are far below 2^64).
ResolvedAddressIsFoldAndValid ==
    (resStage \in {"resolved", "replied"} /\ resAddr.ok
       /\ resIn.hook._offsets /= << >>)
        => LET n == Len(resIn.hook._offsets)
               fold == FoldAddresses(resIn.hook.base_address[1],
                                     resIn.hook._offsets)
           IN  /\ resAddr.reads = SubSeq(fold, 1, n)
               /\ resAddr.address = fold[n + 1]
               /\ resAddr.address >= 0

\* The width in bytes that the tag's name states.
TagWidth(t) ==
    CASE t \in {"int8", "uint8"} -> 1
      [] t \in {"int16", "uint16"} -> 2
      [] t \in {"int32", "uint32"} -> 4
      [] t \in {"int64", "uint64"} -> 8

\* C33: read_value decodes the bytes of an integer tag, as many as the
\* tag is wide: a signed tag gives the two's-complement integer of the
\* little-endian bytes, an unsigned tag the non-negative integer they
\* encode, and neither gives raw bytes.
ReadValueDecodesByTag ==
    codecStage = "decoded"
       => /\ Len(codecBytes.bytes) = TagWidth(codecIn.hookType)
          /\ codecIn.hookType \in IntTags
                => codecOut = IntVal(FromBytesSigned(codecBytes.bytes))
          /\ codecIn.hookType \in UIntTags
                => /\ codecOut = IntVal(FromBytesUnsigned(codecBytes.bytes))
                   /\ codecOut.v >= 0

\* C34: the pattern that scan_memory searches for is the little-endian
\* encoding of the requested value in the requested integer tag, signed
\* or unsigned, as long as the tag is wide.
SearchPatternEncodesValue ==
    (codecStage = "encoded"
       /\ codecIn.data_type \in IntTags \cup UIntTags)
       => /\ codecBytes.ok
          /\ codecBytes.bytes
                = ToBytes(codecIn.value.v, TagWidth(codecIn.data_type))

\* The address that the chain of the hook leads to in the target's memory
\* as it is now.
AddressNow ==
    LET fold == FoldAddresses(resIn.hook.base_address[1], resIn.hook._offsets)
    IN  fold[Len(fold)]

\* C35: every read resolves the chain anew: a read, also the first one
\* after the target moved its pointer, is made at the address that the
\* pointer leads to now and gives the value stored there.
ReadsResolveAnew ==
    resStage \in {"read", "reread"}
       => /\ resAddr.ok
          /\ resAddr.address = AddressNow
          /\ resReply
               = Reply(TRUE,
                       <<IntVal(FromBytesSigned(
                            [k \in 1..4 |-> resIn.os.cells[AddressNow + k - 1]]))>>)

\* C35 witness: the first read after the pointer moved from 16 to 24, for
\* the offset 8: made at 32, where the value 2 is, while 24 holds 1.
ReadsResolveAnewWitness ==
    /\ resStage = "reread"
    /\ resIn.hook._offsets = <<8>>
    /\ ptr64(8) = 24
    /\ resAddr.address = 32
    /\ resIn.os.cells[24] = 1
    /\ resReply = Reply(TRUE, <<IntVal(2)>>)

\* C36: between commands, every loop that is alive belongs to the hook
\* that the registry holds under the hook_id of the loop's notifications,
\* so that a stop or detach command with that id reaches it.
AliveLoopsAreRegistered ==
    cmd.op = "idle"
       => \A t \in Threads :
             Alive(t) => /\ thread[t].hook_id \in HookIds
                         /\ hooks[thread[t].hook_id] = <<thread[t].obj>>

\* Loop t has sent an event.
HasNotified(t) ==
    \E k \in 1..Len(notifications) : notifications[k].thread = t

\* C37: the first successful poll of every loop is notified with the value
\* read, changed or not: a loop that has read a value has sent an event or
\* is about to, the value it is about to send is the value it read, and
\* the event carries it.
FirstPollIsNotified ==
    /\ [](\A t \in Threads :
             thread[t].current_value /= << >>
                => (thread[t].pc = "notify" \/ HasNotified(t)))
    /\ [][\A t \in Threads :
             /\ (thread[t].pc = "read" /\ thread'[t].pc = "notify")
                   => thread'[t].current_value
                         = <<read_value(system, objects[thread[t].obj]).value>>
             /\ (thread[t].pc = "notify" /\ thread'[t].pc /= "notify")
                   => notifications'
                         = Append(notifications,
                                  [hook_id |-> thread[t].hook_id,
                                   value |-> thread[t].current_value[1],
                                   thread |-> t])]_vars

\* C37 witness: two loops of one hook, one after the other, have each
\* sent the value of a target that was never written.
FirstPollIsNotifiedWitness ==
    /\ writes = 0
    /\ Len(notifications) = 2
    /\ notifications[1].thread = 1
    /\ notifications[2].thread = 2
    /\ notifications[1].value = notifications[2].value
    /\ thread[1].pc = "done"
    /\ thread[2].obj = thread[1].obj

\* C38: a start command for a hook that is monitoring replies success and
\* changes nothing else: no thread is created, and the running loop keeps
\* its interval and its callback.
StartOnRunningHookChangesNothing ==
    [][\A id \in HookIds, interval \in Intervals :
          (IF reply'.op = "start" /\ reply'.hook_id = id /\ hooks[id] /= << >>
           THEN /\ objects[hooks[id][1]]._running
                /\ StartMemoryMonitoringEvery(id, interval)
           ELSE FALSE)
             => /\ reply'.result = Reply(TRUE, << >>)
                /\ thread' = thread
                /\ objects' = objects
                /\ hooks' = hooks
                /\ system' = system
                /\ notifications' = notifications]_vars

\* C38 witness: h1 was started with an interval of 1 second, then h2, and
\* then a start command for h1 was answered: the loop of h1 is the first
\* thread and has its interval of 1 second, and there are two threads.
StartOnRunningHookWitness ==
    /\ reply.op = "start"
    /\ reply.hook_id = "h1"
    /\ reply.result.success
    /\ hooks["h1"] /= << >>
    /\ hooks["h2"] /= << >>
    /\ hooks["h1"] /= hooks["h2"]
    /\ objects[hooks["h1"][1]]._running
    /\ objects[hooks["h1"][1]]._thread = <<1>>
    /\ thread[1].hook_id = "h1"
    /\ thread[1].interval = 1
    /\ thread[1].pc = "wait"
    /\ thread[2].hook_id = "h2"
    /\ thread[2].pc = "wait"
    /\ objects[hooks["h2"][1]]._thread = <<2>>

\* The last n elements of the sequence q, all of them when it has fewer.
LastOf(q, n) ==
    IF Len(q) <= n THEN q ELSE SubSeq(q, Len(q) - n + 1, Len(q))

====
